---- MODULE Spec2Model ----
(***************************************************************************)
(* Model of the evaluation pipeline's core: the schema reconciler          *)
(* (src/src/data_validation.py), the cell equality oracle and the report   *)
(* scorer (src/src/evaluation.py), the corpus workflow (src/src/main.py)   *)
(* and the corpus summary (src/src/reporting.py).                          *)
(*                                                                         *)
(* Text is modelled as a sequence of one-character strings, so that        *)
(* strip(), lower(), float() and the similarity ratio are computed on the  *)
(* characters, the way the code computes them.                             *)
(***************************************************************************)
EXTENDS Integers, Sequences, FiniteSets, TLC

VARIABLES
    \* --- schema reconciler (data_validation.check_and_fix) ---
    template_data,      \* the loaded template: key -> default value
    extracted_data,     \* the loaded raw record: key -> value
    corrected_data,     \* the repaired record written by check_and_fix
    fix_report,         \* what check_and_fix printed: the keys it found missing,
                        \* renamed (misspelled -> template key) and deleted
    template_loaded,    \* what load_json gave for the template: "dict", "None"
                        \* or "not a mapping"
    extracted_loaded,   \* the same for the raw record, or "missing" when its
                        \* file does not exist
    validation_result,  \* "True" or "False" as check_and_fix returned, or the
                        \* exception that was raised
    checked_file,       \* the repaired file: its state and its content
    validation_exit,    \* the exit code of data_validation.py, -1 while it runs
    vpc,                \* "ready" before check_and_fix ran, "done" after
    recheck,            \* what check_and_fix printed and saved when it was run
                        \* again, on the record it had repaired
    \* --- cell equality oracle (evaluation.cells_equal) ---
    val1,               \* first argument (ground-truth cell)
    val2,               \* second argument (extracted cell)
    eq_result,          \* what cells_equal returned: the value, the rule that
                        \* decided it, and whether an exception escaped
    opc,                \* "ready" before the call, "done" after
    \* --- report scorer (evaluation.main) ---
    report_id,          \* the report id main is called with
    df_true_orig,       \* the ground-truth table as read from Excel
    df_extracted_orig,  \* the extracted table as read from Excel
    score,              \* what main computed, or the exception it raised
    files,              \* what main finds on disk: "ok", or what is missing
    accuracy_file,      \* the accuracy file of the report
    save_error,         \* main printed "Error saving accuracy file or differences"
    exit_code,          \* the exit code of evaluation.py, -1 while it runs
    spc,                \* "ready" before main ran, "done" after
    hash_seed,          \* the string-hash seed of the process evaluation.py
                        \* runs in: it decides the order a set of strings is
                        \* iterated in
    previous_run,       \* the hash seed and the result of the run before this
                        \* one, when evaluation.py is run again
    \* --- value normalization (evaluation.preprocess) ---
    cell,               \* a cell of the frame preprocess is given
    processed,          \* the cell of the frame preprocess returns
    ppc,                \* "ready" before the call, "done" after
    \* --- corpus workflow (main.run_main_workflow) ---
    report_ids,         \* the list of report ids the workflow is given
    skip_eval,          \* whether the evaluation step is skipped
    attempted,          \* the ids process_report was called with, in order
    last_process,       \* the last call of process_report: the scripts it
                        \* launched, in order, and what it returned
    success_count,      \* reports process_report returned True for
    failure_count,      \* reports process_report returned False for
    timing_log,         \* the ids with a row in llm_timing_log.csv
    wpc,                \* "ready", "loop", "finished", or "returned" for
                        \* the early return on an empty list
    \* --- corpus summary (reporting.generate_report) ---
    accuracy_files,     \* the .txt files of the accuracy folder, sorted by name
    files_read,         \* how many of them the loop has read
    accuracies,         \* the accuracies list of generate_report
    summary_report_ids, \* its report_ids list
    summary,            \* the statistics it printed
    report_exit,        \* the exit code of reporting.py, -1 while it runs
    warned,             \* the files a warning or a skip message was printed for
    summary_file,       \* the summary file: "absent" or "written"
    gpc                 \* "loop" while the files are read, "done" after

vars == <<template_data, extracted_data, corrected_data, fix_report,
          template_loaded, extracted_loaded, validation_result, checked_file,
          validation_exit, vpc, recheck,
          val1, val2, eq_result, opc,
          report_id, df_true_orig, df_extracted_orig, score,
          files, accuracy_file, save_error, exit_code, spc,
          hash_seed, previous_run,
          cell, processed, ppc,
          report_ids, skip_eval, attempted, last_process, success_count, failure_count,
          timing_log, wpc,
          accuracy_files, files_read, accuracies, summary_report_ids, summary,
          report_exit, warned, summary_file, gpc>>

reportingVars == <<accuracy_files, files_read, accuracies, summary_report_ids, summary,
                   report_exit, warned, summary_file, gpc>>

workflowVars == <<report_ids, skip_eval, attempted, last_process, success_count, failure_count,
                  timing_log, wpc>>

preprocessVars == <<cell, processed, ppc>>

scorerVars == <<report_id, df_true_orig, df_extracted_orig, score,
                files, accuracy_file, save_error, exit_code, spc,
                hash_seed, previous_run>>

reconcilerVars == <<template_data, extracted_data, corrected_data, fix_report,
                    template_loaded, extracted_loaded, validation_result,
                    checked_file, validation_exit, vpc, recheck>>
oracleVars == <<val1, val2, eq_result, opc>>

-----------------------------------------------------------------------------
(* Characters and text                                                     *)

\* The characters the model's texts use, in code point order (Python
\* compares str values code point by code point).
Chars ==
    << " ", "+", "-", ".", "/",
       "0", "1", "2", "3", "4", "5", "6", "7", "8", "9",
       "A", "B", "C", "D", "E", "F", "G", "H", "I", "J", "K", "L", "M",
       "N", "O", "P", "Q", "R", "S", "T", "U", "V", "W", "X", "Y", "Z",
       "_",
       "a", "b", "c", "d", "e", "f", "g", "h", "i", "j", "k", "l", "m",
       "n", "o", "p", "q", "r", "s", "t", "u", "v", "w", "x", "y", "z" >>

Ord(c) == CHOOSE i \in 1..Len(Chars) : Chars[i] = c

\* a < b for two texts, as Python's str.__lt__
StrLess(a, b) ==
    \E i \in 1..Len(b) :
        /\ i - 1 <= Len(a)
        /\ \A j \in 1..(i - 1) : a[j] = b[j]
        /\ (i > Len(a) \/ Ord(a[i]) < Ord(b[i]))

\* the least text of a non-empty set
StrMin(S) == CHOOSE x \in S : \A y \in S : y = x \/ StrLess(x, y)

\* the greatest text of a non-empty set
StrMax(S) == CHOOSE x \in S : \A y \in S : y = x \/ StrLess(y, x)

RECURSIVE sorted(_)
\* sorted(S): the texts of S in ascending order
sorted(S) ==
    IF S = {} THEN << >>
    ELSE LET m == StrMin(S) IN << m >> \o sorted(S \ {m})

-----------------------------------------------------------------------------
(* dict helpers                                                            *)

\* d[k] = v
DictSet(d, k, v) == [x \in (DOMAIN d) \cup {k} |-> IF x = k THEN v ELSE d[x]]

\* del d[k]  /  d.pop(k)
DictDel(d, k) == [x \in (DOMAIN d) \ {k} |-> d[x]]

\* get_keys(data)
get_keys(data) == DOMAIN data

-----------------------------------------------------------------------------
(* difflib.SequenceMatcher, as get_close_matches uses it (no junk)         *)

\* The blocks a[i..i+k-1] = b[j..j+k-1] inside a[alo..ahi-1], b[blo..bhi-1]
MatchingBlocksIn(a, b, alo, ahi, blo, bhi) ==
    { t \in (alo..(ahi - 1)) \X (blo..(bhi - 1)) \X (1..(ahi - alo)) :
        /\ t[1] + t[3] <= ahi
        /\ t[2] + t[3] <= bhi
        /\ \A d \in 0..(t[3] - 1) : a[t[1] + d] = b[t[2] + d] }

\* find_longest_match: the longest block; of those, the one starting
\* earliest in a; of those, the one starting earliest in b
find_longest_match(a, b, alo, ahi, blo, bhi) ==
    LET C == MatchingBlocksIn(a, b, alo, ahi, blo, bhi) IN
    IF C = {} THEN << alo, blo, 0 >>
    ELSE CHOOSE t \in C :
            \A u \in C :
                \/ t[3] > u[3]
                \/ (t[3] = u[3] /\ t[1] < u[1])
                \/ (t[3] = u[3] /\ t[1] = u[1] /\ t[2] <= u[2])

RECURSIVE matches(_, _, _, _, _, _)
\* the total size of get_matching_blocks over a[alo..ahi-1], b[blo..bhi-1]
matches(a, b, alo, ahi, blo, bhi) ==
    LET x == find_longest_match(a, b, alo, ahi, blo, bhi)
        i == x[1]
        j == x[2]
        k == x[3]
    IN  IF k = 0 THEN 0
        ELSE k
             + (IF alo < i /\ blo < j THEN matches(a, b, alo, i, blo, j) ELSE 0)
             + (IF i + k < ahi /\ j + k < bhi
                   THEN matches(a, b, i + k, ahi, j + k, bhi) ELSE 0)

\* _calculate_ratio(matches, length), as the fraction << numerator, denominator >>
calculate_ratio(m, length) == IF length > 0 THEN << 2 * m, length >> ELSE << 1, 1 >>

\* SequenceMatcher(a, b).ratio()
ratio(a, b) ==
    calculate_ratio(matches(a, b, 1, Len(a) + 1, 1, Len(b) + 1), Len(a) + Len(b))

\* how many times character c occurs in s
CountChar(s, c) == Cardinality({ i \in 1..Len(s) : s[i] = c })

RECURSIVE SumOver(_, _, _)
SumOver(S, a, b) ==
    IF S = {} THEN 0
    ELSE LET c == CHOOSE c \in S : TRUE
             na == CountChar(a, c)
             nb == CountChar(b, c)
         IN (IF na < nb THEN na ELSE nb) + SumOver(S \ {c}, a, b)

\* SequenceMatcher(a, b).quick_ratio(): an upper bound from the character counts
quick_ratio(a, b) ==
    calculate_ratio(SumOver({ a[i] : i \in 1..Len(a) }, a, b), Len(a) + Len(b))

\* SequenceMatcher(a, b).real_quick_ratio(): an upper bound from the lengths
real_quick_ratio(a, b) ==
    calculate_ratio(IF Len(a) < Len(b) THEN Len(a) ELSE Len(b), Len(a) + Len(b))

\* config.SIMILARITY_CUTOFF = 0.8, as the fraction 4/5
SIMILARITY_CUTOFF == << 4, 5 >>

\* r >= cutoff for two fractions
FracGeq(r, c) == r[1] * c[2] >= c[1] * r[2]

\* r > q for two fractions
FracGt(r, q) == r[1] * q[2] > q[1] * r[2]

\* the (score, text) pairs get_close_matches collects: the possibilities whose
\* real_quick_ratio, quick_ratio and ratio all reach the cutoff
CloseCandidates(word, possibilities, cutoff) ==
    LET quick == { x \in possibilities :
                      /\ FracGeq(real_quick_ratio(x, word), cutoff)
                      /\ FracGeq(quick_ratio(x, word), cutoff) }
        scored == { << ratio(x, word), x >> : x \in quick }
    IN  { p \in scored : FracGeq(p[1], cutoff) }

\* difflib.get_close_matches(word, possibilities, n=1, cutoff): the list of
\* the best match (greatest (score, text) pair), or the empty list
get_close_matches(word, possibilities, cutoff) ==
    LET C == CloseCandidates(word, possibilities, cutoff) IN
    IF C = {} THEN << >>
    ELSE LET best == CHOOSE p \in C :
                        \A q \in C :
                           \/ q = p
                           \/ FracGt(p[1], q[1])
                           \/ (~FracGt(q[1], p[1]) /\ StrLess(q[2], p[2]))
         IN  << best[2] >>

-----------------------------------------------------------------------------
(* data_validation.py: find_similar_keys and check_and_fix                 *)

\* find_similar_keys(template_keys, extracted_keys): misspelled key -> the
\* template key it is closest to
find_similar_keys(template_keys, extracted_keys) ==
    LET matches_of == [ key \in extracted_keys |->
                          get_close_matches(key, template_keys, SIMILARITY_CUTOFF) ]
        similar == { key \in extracted_keys :
                        matches_of[key] # << >> /\ key # matches_of[key][1] }
    IN  [ key \in similar |-> matches_of[key][1] ]

\* template_data.get(key, "")
DictGet(d, k, default) == IF k \in DOMAIN d THEN d[k] ELSE default

RECURSIVE AddMissingKeys(_, _, _)
\* step 1: for key in sorted(missing_in_extracted): corrected_data[key] = template_data.get(key, "")
AddMissingKeys(corrected, keys, template) ==
    IF keys = << >> THEN corrected
    ELSE AddMissingKeys(DictSet(corrected, Head(keys), DictGet(template, Head(keys), << >>)),
                        Tail(keys), template)

RECURSIVE RenameSimilarKeysByCopy(_, _, _)
\* step 2 copying the value and leaving the misspelled key in place
RenameSimilarKeysByCopy(corrected, wrong_keys, similar) ==
    IF wrong_keys = << >> THEN corrected
    ELSE RenameSimilarKeysByCopy(
            IF Head(wrong_keys) \in DOMAIN corrected
               THEN DictSet(corrected, similar[Head(wrong_keys)], corrected[Head(wrong_keys)])
               ELSE corrected,
            Tail(wrong_keys), similar)

RECURSIVE RenameSimilarKeys(_, _, _)
\* step 2: for wrong_key, correct_key in sorted(similar_keys_to_rename.items()):
\*             if wrong_key in corrected_data:
\*                 corrected_data[correct_key] = corrected_data.pop(wrong_key)
RenameSimilarKeys(corrected, wrong_keys, similar) ==
    IF wrong_keys = << >> THEN corrected
    ELSE LET wrong_key == Head(wrong_keys)
             correct_key == similar[wrong_key]
         IN  RenameSimilarKeys(
                IF wrong_key \in DOMAIN corrected
                   THEN DictSet(DictDel(corrected, wrong_key), correct_key, corrected[wrong_key])
                   ELSE corrected,
                Tail(wrong_keys), similar)

\* a repair that forgets step 3
DeleteExtraKeysSkipped(corrected, keys) == corrected

RECURSIVE DeleteExtraKeys(_, _)
\* step 3: for key in sorted(keys_to_delete): if key in corrected_data: del corrected_data[key]
DeleteExtraKeys(corrected, keys) ==
    IF keys = << >> THEN corrected
    ELSE DeleteExtraKeys(IF Head(keys) \in DOMAIN corrected
                            THEN DictDel(corrected, Head(keys)) ELSE corrected,
                         Tail(keys))

\* check_and_fix, the three-way diff of the key sets: the keys missing in the
\* record, the extra keys to rename (misspelled -> template key), and the extra
\* keys to delete
DiffKeys(template, extracted) ==
    LET template_keys == get_keys(template)
        extracted_keys == get_keys(extracted)
        missing_in_extracted == template_keys \ extracted_keys
        extra_in_extracted == extracted_keys \ template_keys
        similar_keys_to_rename == find_similar_keys(template_keys, extra_in_extracted)
        keys_to_delete == extra_in_extracted \ (DOMAIN similar_keys_to_rename)
    IN  [ missing |-> missing_in_extracted,
          renamed |-> similar_keys_to_rename,
          deleted |-> keys_to_delete ]

RECURSIVE reversed(_)
\* a list, last entry first
reversed(list) ==
    IF list = << >> THEN << >> ELSE Append(reversed(Tail(list)), Head(list))

\* a repair that renames in descending order of the misspelled key
check_and_fix_renames_descending(template, extracted, diff) ==
    LET added == AddMissingKeys(extracted, sorted(diff.missing), template)
        renamed == RenameSimilarKeys(added, reversed(sorted(DOMAIN diff.renamed)), diff.renamed)
    IN  DeleteExtraKeys(renamed, sorted(diff.deleted))

\* a repair that fills the defaults in after the renames
check_and_fix_defaults_last(template, extracted, diff) ==
    LET renamed == RenameSimilarKeys(extracted, sorted(DOMAIN diff.renamed), diff.renamed)
        added == AddMissingKeys(renamed, sorted(diff.missing), template)
    IN  DeleteExtraKeys(added, sorted(diff.deleted))

\* check_and_fix, the repair: the record it saves, from a copy of the extracted
\* record, by adding, renaming and deleting in this order
check_and_fix(template, extracted, diff) ==
    LET added == AddMissingKeys(extracted, sorted(diff.missing), template)
        renamed == RenameSimilarKeys(added, sorted(DOMAIN diff.renamed), diff.renamed)
    IN  DeleteExtraKeys(renamed, sorted(diff.deleted))

\* The field names the model draws templates and records from: a name, three
\* names within or near the similarity cutoff of it or of each other, and an
\* unrelated name.
KeyUniverse ==
    { << "c", "y", "s", "t" >>, << "c", "y", "s", "t", "s" >>, << "c", "y", "s", "t", "z" >>, << "c", "y", "t", "s" >>, << "n", "o", "t", "e" >> }

\* default values a template gives its fields
DefaultValues == { << >>, << "0" >> }

\* values an extracted record holds
RecordValues == { << "5" >>, << "x" >> }

\* at most this many fields in a template
MaxTemplateKeys == 2

\* at most this many fields in a record
MaxRecordKeys == 3

\* the dicts with at most n keys of K and values of V
Dicts(K, V, n) ==
    UNION { [S -> V] : S \in { T \in SUBSET K : Cardinality(T) <= n } }

\* nothing printed yet
NoReport == [ missing |-> {}, renamed |-> << >>, deleted |-> {} ]

\* what load_json can give for the template: a dict, None (the file is
\* missing or is not JSON, or holds null), or a JSON value that is no dict
TemplateLoadStates == { "dict", "None", "not a mapping" }

\* the same for the raw record; "missing" when main finds no input file
ExtractedLoadStates == { "dict", "None", "not a mapping", "missing" }

\* how the save of check_and_fix ends
ValidationSaveOutcomes == { "saved", "makedirs failed", "open failed", "dump failed" }

\* no repaired file
NoCheckedFile == [ state |-> "absent", data |-> << >> ]

\* check_and_fix reporting success whatever the save did
check_and_fix_returns_ignoring_save(tl, el, save) ==
    IF el = "missing" THEN "FileNotFoundError"
    ELSE IF tl = "None" \/ el = "None" THEN "False"
    ELSE IF tl = "not a mapping" \/ el = "not a mapping" THEN "AttributeError"
    ELSE "True"

\* what main gets from check_and_fix: False when a load gave None, the
\* AttributeError of get_keys for a value without keys(), False when the
\* output directory or the file cannot be written, True otherwise; main
\* raises FileNotFoundError before the call when the input file is missing
check_and_fix_returns(tl, el, save) ==
    IF el = "missing" THEN "FileNotFoundError"
    ELSE IF tl = "None" \/ el = "None" THEN "False"
    ELSE IF tl = "not a mapping" \/ el = "not a mapping" THEN "AttributeError"
    ELSE IF save = "saved" THEN "True"
    ELSE "False"

\* the repaired file after check_and_fix: written when the save is reached
\* and ends well, cut short when json.dump raises, else as it was
checked_file_after(file, tl, el, save, corrected) ==
    IF tl # "dict" \/ el # "dict" THEN file
    ELSE IF save = "saved" THEN [ state |-> "written", data |-> corrected ]
    ELSE IF save = "dump failed" THEN [ state |-> "partial", data |-> << >> ]
    ELSE file

\* the exit code of data_validation.py: main raises RuntimeError when
\* check_and_fix returns False, and every exception of main exits with 1
validation_exit_code(result) == IF result = "True" THEN 0 ELSE 1

\* the value of the reconciler's variables while another component runs
\* check_and_fix was not run again
NoRecheck == [ report |-> NoReport, data |-> << >> ]

ReconcilerIdle ==
    /\ template_data = << >>
    /\ extracted_data = << >>
    /\ corrected_data = << >>
    /\ fix_report = NoReport
    /\ template_loaded = "idle"
    /\ extracted_loaded = "idle"
    /\ validation_result = ""
    /\ checked_file = NoCheckedFile
    /\ validation_exit = -1
    /\ vpc = "idle"
    /\ recheck = NoRecheck

InitReconcile ==
    /\ template_loaded \in TemplateLoadStates
    /\ extracted_loaded \in ExtractedLoadStates
    /\ IF template_loaded = "dict" /\ extracted_loaded = "dict"
          THEN /\ template_data \in Dicts(KeyUniverse, DefaultValues, MaxTemplateKeys)
               /\ extracted_data \in Dicts(KeyUniverse, RecordValues, MaxRecordKeys)
          ELSE /\ template_data = << >>
               /\ extracted_data = << >>
    /\ corrected_data = << >>
    /\ fix_report = NoReport
    /\ validation_result = ""
    /\ checked_file = NoCheckedFile
    /\ validation_exit = -1
    /\ vpc = "ready"
    /\ recheck = NoRecheck

\* data_validation.py run on a template and a record: main checks the input
\* file, check_and_fix loads both, repairs the record and saves it, and the
\* script exits
CheckAndFix ==
    /\ vpc = "ready"
    /\ fix_report' = IF template_loaded = "dict" /\ extracted_loaded = "dict"
                        THEN DiffKeys(template_data, extracted_data)
                        ELSE NoReport
    /\ corrected_data' = IF template_loaded = "dict" /\ extracted_loaded = "dict"
                            THEN check_and_fix(template_data, extracted_data, fix_report')
                            ELSE << >>
    /\ \E save \in ValidationSaveOutcomes :
          /\ validation_result' = check_and_fix_returns(template_loaded, extracted_loaded, save)
          /\ checked_file' = checked_file_after(checked_file, template_loaded,
                                                extracted_loaded, save, corrected_data')
    /\ validation_exit' = validation_exit_code(validation_result')
    /\ vpc' = "done"
    /\ UNCHANGED << template_data, extracted_data, template_loaded, extracted_loaded,
                    recheck >>

\* check_and_fix run again with the same template, on the repaired file the
\* run before it wrote
CheckAndFixAgain ==
    /\ vpc = "done"
    /\ checked_file.state = "written"
    /\ recheck' = [ report |-> DiffKeys(template_data, checked_file.data),
                    data |-> check_and_fix(template_data, checked_file.data,
                                           DiffKeys(template_data, checked_file.data)) ]
    /\ vpc' = "rechecked"
    /\ UNCHANGED << template_data, extracted_data, corrected_data, fix_report,
                    template_loaded, extracted_loaded, validation_result,
                    checked_file, validation_exit >>

-----------------------------------------------------------------------------
(* Text operations of Python that the oracle uses                          *)

UpperCase ==
    << "A", "B", "C", "D", "E", "F", "G", "H", "I", "J", "K", "L", "M",
       "N", "O", "P", "Q", "R", "S", "T", "U", "V", "W", "X", "Y", "Z" >>

LowerCase ==
    << "a", "b", "c", "d", "e", "f", "g", "h", "i", "j", "k", "l", "m",
       "n", "o", "p", "q", "r", "s", "t", "u", "v", "w", "x", "y", "z" >>

LowerChar(c) ==
    IF \E i \in 1..Len(UpperCase) : UpperCase[i] = c
       THEN LowerCase[CHOOSE i \in 1..Len(UpperCase) : UpperCase[i] = c]
       ELSE c

\* str.lower()
lower(s) == [ i \in 1..Len(s) |-> LowerChar(s[i]) ]

IsSpace(c) == c = " "

RECURSIVE lstrip(_)
lstrip(s) == IF s # << >> /\ IsSpace(Head(s)) THEN lstrip(Tail(s)) ELSE s

RECURSIVE rstrip(_)
rstrip(s) ==
    IF s # << >> /\ IsSpace(s[Len(s)]) THEN rstrip(SubSeq(s, 1, Len(s) - 1)) ELSE s

\* str.strip()
strip(s) == rstrip(lstrip(s))

Digits == { "0", "1", "2", "3", "4", "5", "6", "7", "8", "9" }

DigitValue(c) == Ord(c) - Ord("0")

AllDigits(s) == \A i \in 1..Len(s) : s[i] \in Digits

RECURSIVE DigitsValue(_)
\* the number a run of decimal digits spells
DigitsValue(s) ==
    IF s = << >> THEN 0
    ELSE 10 * DigitsValue(SubSeq(s, 1, Len(s) - 1)) + DigitValue(s[Len(s)])

RECURSIVE Pow10(_)
Pow10(n) == IF n <= 0 THEN 1 ELSE 10 * Pow10(n - 1)

\* the first position of character c in s, or 0
IndexOf(s, c) ==
    IF \E i \in 1..Len(s) : s[i] = c
       THEN CHOOSE i \in 1..Len(s) : s[i] = c /\ \A j \in 1..(i - 1) : s[j] # c
       ELSE 0

Abs(n) == IF n < 0 THEN -n ELSE n

Max2(a, b) == IF a < b THEN b ELSE a

\* What float() gives for a decimal text without sign: mantissa m and scale s
\* spell the number m / 10^s; "ValueError" when the text is no number.
FloatOfUnsigned(t) ==
    LET epos == IndexOf(t, "e")
        mant == IF epos = 0 THEN t ELSE SubSeq(t, 1, epos - 1)
        expo == IF epos = 0 THEN << >> ELSE SubSeq(t, epos + 1, Len(t))
        esign == IF expo # << >> /\ Head(expo) \in { "+", "-" } THEN Head(expo) ELSE "+"
        edigits == IF expo # << >> /\ Head(expo) \in { "+", "-" } THEN Tail(expo) ELSE expo
        dot == IndexOf(mant, ".")
        ipart == IF dot = 0 THEN mant ELSE SubSeq(mant, 1, dot - 1)
        fpart == IF dot = 0 THEN << >> ELSE SubSeq(mant, dot + 1, Len(mant))
        wellformed ==
            /\ AllDigits(ipart)
            /\ AllDigits(fpart)
            /\ Len(ipart) + Len(fpart) >= 1
            /\ (epos # 0 => (edigits # << >> /\ AllDigits(edigits)))
        e == IF esign = "-" THEN -DigitsValue(edigits) ELSE DigitsValue(edigits)
        digits == DigitsValue(ipart \o fpart)
        scale == Len(fpart) - e
    IN  IF ~wellformed THEN [ kind |-> "ValueError" ]
        ELSE IF scale >= 0 THEN [ kind |-> "finite", m |-> digits, s |-> scale ]
        ELSE [ kind |-> "finite", m |-> digits * Pow10(-scale), s |-> 0 ]

\* float(text): surrounding whitespace is ignored, a sign may lead, the
\* letters are case-insensitive; inf, infinity and nan are numbers too.
float(val) ==
    LET t == lower(strip(val))
        signed == t # << >> /\ Head(t) \in { "+", "-" }
        sign == IF signed /\ Head(t) = "-" THEN -1 ELSE 1
        body == IF signed THEN Tail(t) ELSE t
    IN  IF body \in { << "i", "n", "f" >>,
                      << "i", "n", "f", "i", "n", "i", "t", "y" >> }
           THEN [ kind |-> "inf", sign |-> sign ]
        ELSE IF body = << "n", "a", "n" >> THEN [ kind |-> "nan" ]
        ELSE LET u == FloatOfUnsigned(body)
             IN  IF u.kind = "ValueError" THEN u
                 ELSE [ kind |-> "finite", m |-> sign * u.m, s |-> u.s ]

\* a comparison without tolerance: the two numbers are the same
within_tol_exact(f1, f2) == f1.m * Pow10(f2.s) = f2.m * Pow10(f1.s)

\* abs(f1 - f2) <= atol + rtol * abs(f2) with numpy's defaults rtol = 1e-05 and
\* atol = 1e-08, for two finite numbers. At a common scale s >= 3, with
\* A = f1 * 10^s and B = f2 * 10^s, this is 10^5 * |A - B| <= 10^(s-3) + |B|.
within_tol(f1, f2) ==
    LET s == Max2(Max2(f1.s, f2.s), 3)
        A == f1.m * Pow10(s - f1.s)
        B == f2.m * Pow10(s - f2.s)
    IN  Abs(A - B) <= (Pow10(s - 3) + Abs(B)) \div 100000

\* np.isclose(f1, f2, equal_nan=False)
isclose(f1, f2) ==
    IF f1.kind = "nan" \/ f2.kind = "nan" THEN FALSE
    ELSE IF f1.kind = "inf" \/ f2.kind = "inf"
            THEN f1.kind = f2.kind /\ f1.sign = f2.sign
    ELSE within_tol(f1, f2)

-----------------------------------------------------------------------------
(* evaluation.py: cells_equal                                              *)

\* the canonical missing marker, pd.NA
NA == << "<NA>" >>

\* pd.isna(val)
isna(val) == val = NA

\* the vacuous texts without 'null'
unspecified_strings_without_null ==
    { << "u", "n", "s", "p", "e", "c", "i", "f", "i", "e", "d" >>,
      << "n", "o", "t", " ", "s", "p", "e", "c", "i", "f", "i", "e", "d" >>,
      << "n", "/", "a" >>,
      << "n", "a" >>,
      << >> }

unspecified_strings ==
    { << "u", "n", "s", "p", "e", "c", "i", "f", "i", "e", "d" >>,
      << "n", "o", "t", " ", "s", "p", "e", "c", "i", "f", "i", "e", "d" >>,
      << "n", "/", "a" >>,
      << "n", "a" >>,
      << >>,
      << "n", "u", "l", "l" >> }

true_strings ==
    { << "y", "e", "s" >>,
      << "p", "r", "e", "s", "e", "n", "t" >>,
      << "t", "r", "u", "e" >>,
      << "a", "c", "t", "i", "v", "e" >>,
      << "p", "o", "s", "i", "t", "i", "v", "e" >>,
      << "c", "o", "m", "p", "l", "e", "t", "e" >>,
      << "c", "o", "n", "v", "e", "n", "t", "i", "o", "n", "a", "l" >> }

\* the false-like words without 'normal'
false_strings_without_normal ==
    { << "n", "o" >>,
      << "a", "b", "s", "e", "n", "t" >>,
      << "f", "a", "l", "s", "e" >>,
      << "i", "n", "a", "c", "t", "i", "v", "e" >>,
      << "n", "e", "g", "a", "t", "i", "v", "e" >> }

false_strings ==
    { << "n", "o" >>,
      << "a", "b", "s", "e", "n", "t" >>,
      << "f", "a", "l", "s", "e" >>,
      << "i", "n", "a", "c", "t", "i", "v", "e" >>,
      << "n", "e", "g", "a", "t", "i", "v", "e" >>,
      << "n", "o", "r", "m", "a", "l" >> }

\* a try block that catches TypeError only
numeric_rule_catches_type_error_only == { "TypeError" }

\* the exceptions the numeric rule's try block catches
numeric_rule_catches == { "ValueError", "TypeError" }

\* rule 3 for two present values: "equal", "unequal", or "undecided"
boolean_rule(s1, s2) ==
    LET is_s1_true_type == s1 = << "1" >> \/ s1 \in true_strings
        is_s1_false_type == s1 = << "0" >> \/ s1 \in false_strings
        is_s2_true_type == s2 = << "1" >> \/ s2 \in true_strings
        is_s2_false_type == s2 = << "0" >> \/ s2 \in false_strings
    IN  IF (is_s1_true_type /\ is_s2_true_type) \/ (is_s1_false_type /\ is_s2_false_type)
           THEN "equal"
        ELSE IF (is_s1_true_type /\ is_s2_false_type) \/ (is_s1_false_type /\ is_s2_true_type)
           THEN "unequal"
        ELSE "undecided"

\* rule 4 for two present values: what the try block does. "raise" is an
\* exception the except clause does not catch, "pass" is one it catches.
numeric_rule(v1, v2) ==
    LET f1 == float(v1)
        f2 == float(v2)
    IN  IF f1.kind = "ValueError"
           THEN (IF "ValueError" \in numeric_rule_catches THEN "pass" ELSE "raise")
        ELSE IF f2.kind = "ValueError"
           THEN (IF "ValueError" \in numeric_rule_catches THEN "pass" ELSE "raise")
        ELSE IF isclose(f1, f2) THEN "equal" ELSE "unequal"

\* cells_equal(val1, val2): the value returned, the rule that returned it, and
\* whether an exception escaped instead
cells_equal(v1, v2) ==
    LET isna1 == isna(v1)
        isna2 == isna(v2)
        s1 == lower(strip(v1))
        s2 == lower(strip(v2))
        non_na_val_str == IF isna1 THEN s2 ELSE s1
    IN  IF isna1 /\ isna2
           THEN [ value |-> TRUE, rule |-> "both_na", raised |-> FALSE ]
        ELSE IF isna1 \/ isna2
           THEN [ value |-> non_na_val_str \in unspecified_strings
                              \/ non_na_val_str = << "0" >>,
                  rule |-> "one_na", raised |-> FALSE ]
        ELSE LET b == boolean_rule(s1, s2) IN
             IF b # "undecided"
                THEN [ value |-> b = "equal", rule |-> "boolean", raised |-> FALSE ]
             ELSE LET n == numeric_rule(v1, v2) IN
                  IF n = "raise"
                     THEN [ value |-> FALSE, rule |-> "numeric", raised |-> TRUE ]
                  ELSE IF n # "pass"
                     THEN [ value |-> n = "equal", rule |-> "numeric", raised |-> FALSE ]
                  ELSE [ value |-> s1 = s2, rule |-> "string", raised |-> FALSE ]

\* The cell values the model draws the oracle's arguments from: the missing
\* marker, the vacuous texts, boolean synonyms, numbers in several spellings
\* (among them pairs inside, outside and at the edge of the tolerance), and
\* free text, in varying case and with surrounding blanks.
CellValues ==
    { NA } \cup
    { << >>,
      << "0" >>,
      << "1" >>,
      << "5" >>,
      << "7" >>,
      << "7", ".", "0" >>,
      << "7", ".", "0", "0", "1" >>,
      << "7", ".", "5" >>,
      << "9" >>,
      << "9", "9", "9", "9", "9" >>,
      << "1", "0", "0", "0", "0", "0" >>,
      << "1", ".", "0" >>,
      << "0", ".", "0" >>,
      << "1", "0", "0" >>,
      << "1", "e", "2" >>,
      << "-", "7" >>,
      << ".", "5" >>,
      << "0", ".", "5" >>,
      << "n", "a", "n" >>,
      << "N", "A", "N" >>,
      << "+", "n", "a", "n" >>,
      << "i", "n", "f" >>,
      << "Y", "e", "s" >>,
      << "y", "e", "s" >>,
      << "N", "o" >>,
      << "N", "o", "r", "m", "a", "l" >>,
      << "P", "r", "e", "s", "e", "n", "t" >>,
      << "A", "c", "t", "i", "v", "e" >>,
      << "a", "b", "s", "e", "n", "t" >>,
      << "t", "e", "x", "t" >>,
      << "T", "e", "x", "t" >>,
      << " ", "t", "e", "x", "t" >>,
      << "o", "t", "h", "e", "r" >>,
      << "u", "n", "s", "p", "e", "c", "i", "f", "i", "e", "d" >>,
      << "N", "o", "t", " ", "S", "p", "e", "c", "i", "f", "i", "e", "d" >>,
      << "N", "/", "A" >>,
      << "n", "a" >>,
      << "n", "u", "l", "l" >> }

\* no call made yet
NoResult == [ value |-> FALSE, rule |-> "none", raised |-> FALSE ]

InitOracle ==
    /\ val1 \in CellValues
    /\ val2 \in CellValues
    /\ eq_result = NoResult
    /\ opc = "ready"

\* one call of cells_equal
CellsEqual ==
    /\ opc = "ready"
    /\ eq_result' = cells_equal(val1, val2)
    /\ opc' = "done"
    /\ UNCHANGED << val1, val2 >>

-----------------------------------------------------------------------------
(* evaluation.py: the report scorer, main                                  *)
(*                                                                         *)
(* A table is [columns |-> set of names, rows |-> sequence of rows], a row *)
(* a function from the column names to cells. A cell is a text or NaN, the *)
(* value read_excel gives an empty cell. A table holds a name of the       *)
(* rename table or the name it is renamed to, never both.                  *)

\* an empty Excel cell, as read_excel(dtype=str) gives it
NaN == << "<NaN>" >>

\* config.COLUMN_NAME_MAPPING
COLUMN_NAME_MAPPING ==
    ("Right uteroscaral nodule size (mm)" :> "Right uterosacral nodule size (mm)")
    @@ ("Endometrioal lesions Identified Comment" :> "Endometrial lesions Identified Comment")

\* config.REPORT_ID_COLUMN_NAMES
REPORT_ID_COLUMN_NAMES == << "Report ID", "Report" >>

\* the column names of the model, in code point order (the order sorted() gives)
ColumnOrder ==
    << "Endometrial lesions Identified Comment",
       "Endometrioal lesions Identified Comment",
       "Fibroids identified",
       "ID",
       "Radiologist Notes",
       "Report",
       "Report ID",
       "Right uterosacral nodule size (mm)",
       "Right uteroscaral nodule size (mm)" >>

ColumnRank(c) == CHOOSE i \in 1..Len(ColumnOrder) : ColumnOrder[i] = c

RECURSIVE sorted_columns(_)
\* sorted(names) for a list of distinct column names
sorted_columns(names) ==
    IF names = << >> THEN << >>
    ELSE LET m == CHOOSE i \in 1..Len(names) :
                      \A j \in 1..Len(names) : ColumnRank(names[i]) <= ColumnRank(names[j])
         IN  << names[m] >>
                \o sorted_columns(SubSeq(names, 1, m - 1) \o SubSeq(names, m + 1, Len(names)))

\* the string-hash seeds a Python process can start with: two of them, which
\* iterate a set of names in opposite orders
HashSeeds == { 0, 1 }

RECURSIVE set_iteration(_, _)
\* list(S) for a set of column names, in the process whose hash seed is seed:
\* the order is the one of the hash table, which sorted() does not look at
set_iteration(S, seed) ==
    IF S = {} THEN << >>
    ELSE LET m == CHOOSE x \in S : \A y \in S :
                      IF seed = 0 THEN ColumnRank(x) >= ColumnRank(y)
                                  ELSE ColumnRank(x) <= ColumnRank(y)
         IN  << m >> \o set_iteration(S \ {m}, seed)

\* a column keeps its name
RenamedColumnUnchanged(c) == c

\* the name df.rename(columns=COLUMN_NAME_MAPPING) gives a column
RenamedColumn(c) ==
    IF c \in DOMAIN COLUMN_NAME_MAPPING THEN COLUMN_NAME_MAPPING[c] ELSE c

\* standardize_columns(df)
standardize_columns(df) ==
    LET renamed == { RenamedColumn(c) : c \in df.columns }
        old(c2) == CHOOSE c \in df.columns : RenamedColumn(c) = c2
    IN  [ columns |-> renamed,
          rows |-> [ i \in DOMAIN df.rows |-> [ c2 \in renamed |-> df.rows[i][old(c2)] ] ] ]

\* astype(str) of a cell: NaN becomes the text nan
astype_str(v) == IF v = NaN THEN << "n", "a", "n" >> ELSE v

NotSpace(c) == ~IsSpace(c)

\* .astype(str).str.strip().str.replace(r'\s+', '', regex=True)
clean_id(v) == SelectSeq(strip(astype_str(v)), NotSpace)

\* the texts preprocess replaces by the missing marker (its second pattern,
\* matched as written: lowercase)
na_patterns ==
    { << "n", "a", "n" >>,
      << "n", "o", "n", "e" >>,
      << "n", "a" >>,
      << "n", "/", "a" >>,
      << "n", "a", "t" >>,
      << "u", "n", "s", "p", "e", "c", "i", "f", "i", "e", "d" >>,
      << "n", "o", "t", " ", "s", "p", "e", "c", "i", "f", "i", "e", "d" >>,
      << "n", "u", "l", "l" >> }

\* preprocess, for one cell: to text, stripped, NA spellings replaced by pd.NA
preprocess(v) ==
    LET t == strip(astype_str(v))
    IN  IF t = << >> \/ t \in na_patterns THEN NA ELSE t

\* no column found
NoColumn == "<None>"

\* next((col for col in config.REPORT_ID_COLUMN_NAMES if col in df.columns), None)
find_id_col(df) ==
    IF \E i \in 1..Len(REPORT_ID_COLUMN_NAMES) : REPORT_ID_COLUMN_NAMES[i] \in df.columns
       THEN REPORT_ID_COLUMN_NAMES[
              CHOOSE i \in 1..Len(REPORT_ID_COLUMN_NAMES) :
                 /\ REPORT_ID_COLUMN_NAMES[i] \in df.columns
                 /\ \A j \in 1..(i - 1) : REPORT_ID_COLUMN_NAMES[j] \notin df.columns ]
       ELSE NoColumn

\* df[id_col] = df[id_col].astype(str).str.strip().str.replace(r'\s+', '', regex=True)
clean_id_column(df, id_col) ==
    [ columns |-> df.columns,
      rows |-> [ i \in DOMAIN df.rows |->
                   [ c \in df.columns |->
                       IF c = id_col THEN clean_id(df.rows[i][c]) ELSE df.rows[i][c] ] ] ]

RECURSIVE select_rows(_, _, _)
\* df[df[id_col] == id]
select_rows(rows, id_col, id) ==
    IF rows = << >> THEN << >>
    ELSE (IF Head(rows)[id_col] = id THEN << Head(rows) >> ELSE << >>)
         \o select_rows(Tail(rows), id_col, id)

filter_by_id(df, id_col, id) ==
    [ columns |-> df.columns, rows |-> select_rows(df.rows, id_col, id) ]

\* report_id[:3] + " " + report_id[3:]
report_id_formatted(id) ==
    IF Len(id) <= 3 THEN id \o << " " >>
    ELSE SubSeq(id, 1, 3) \o << " " >> \o SubSeq(id, 4, Len(id))

\* report_id_formatted.replace(" ", "")
fallback_id(id) == SelectSeq(report_id_formatted(id), NotSpace)

\* the extracted rows main compares: those whose id is report_id, or, when
\* there are none, those whose id is the fallback id
filter_extracted(df, id_col, id) ==
    LET filtered == filter_by_id(df, id_col, id)
    IN  IF filtered.rows # << >> THEN filtered
        ELSE filter_by_id(df, id_col, fallback_id(id))

\* list(set(df_true_std.columns) & set(df_extracted_std.columns)), not sorted
common_columns_unsorted(df_true_std, df_extracted_std) ==
    set_iteration(df_true_std.columns \cap df_extracted_std.columns, hash_seed)

\* sorted(list(set(df_true_std.columns) & set(df_extracted_std.columns)))
common_columns(df_true_std, df_extracted_std) ==
    sorted_columns(set_iteration(df_true_std.columns \cap df_extracted_std.columns,
                                 hash_seed))

\* df[common_cols].reset_index(drop=True), as a matrix: row r, column c holds
\* the cell of row r under the name common_cols[c]
aligned(df, common_cols) ==
    [ r \in 1..Len(df.rows) |-> [ c \in 1..Len(common_cols) |-> df.rows[r][common_cols[c]] ] ]

\* preprocess(df) for an aligned matrix
preprocess_frame(matrix) ==
    [ r \in DOMAIN matrix |-> [ c \in DOMAIN matrix[r] |-> preprocess(matrix[r][c]) ] ]

\* np.vectorize(cells_equal)(true_values, extracted_values)
correct_mask(true_values, extracted_values) ==
    [ r \in DOMAIN true_values |->
        [ c \in DOMAIN true_values[r] |-> cells_equal(true_values[r][c], extracted_values[r][c]) ] ]

\* the cells (r, c) of a mask, as a set
MaskCells(mask) == UNION { { << r, c >> : c \in DOMAIN mask[r] } : r \in DOMAIN mask }

\* np.sum(correct_mask)
count_correct(mask) == Cardinality({ rc \in MaskCells(mask) : mask[rc[1]][rc[2]].value })

\* the size of a mask that is taken to have one row
mask_size_of_one_row(mask, ncols) == ncols

\* correct_mask.size
mask_size(mask, ncols) == Len(mask) * ncols

\* accuracy = (correct_cells / total_cells) if total_cells > 0 else 0.0, as the
\* fraction << numerator, denominator >>
accuracy_of(correct_cells, total_cells) ==
    IF total_cells > 0 THEN << correct_cells, total_cells >> ELSE << 0, 1 >>

RECURSIVE diff_rows(_, _, _, _, _, _)
\* the diff_list main builds: for each cell the mask marks unequal, in row
\* then column order, the column and the two display values
diff_rows(mask, common_cols, true_aligned, extracted_aligned, r, c) ==
    IF r > Len(mask) THEN << >>
    ELSE IF c > Len(common_cols)
       THEN diff_rows(mask, common_cols, true_aligned, extracted_aligned, r + 1, 1)
    ELSE (IF ~mask[r][c].value
             THEN << [ Column |-> common_cols[c],
                       TrueValue |-> true_aligned[r][c],
                       ExtractedValue |-> extracted_aligned[r][c] ] >>
             ELSE << >>)
         \o diff_rows(mask, common_cols, true_aligned, extracted_aligned, r, c + 1)

\* main raised: the exception type, and what it found missing
Raised(exception, what) ==
    [ status |-> exception, what |-> what, common_cols |-> << >>, matched_rows |-> 0,
      total_cells |-> 0, correct_cells |-> 0, incorrect_cells |-> 0,
      accuracy |-> << 0, 1 >>, diff_list |-> << >> ]

\* the counts, with a difference list that shows the normalized values
counts_with_normalized_display(common_cols, true_aligned, extracted_aligned, mask, total_cells, correct_cells) ==
    [ status |-> "ok", what |-> "",
      common_cols |-> common_cols,
      matched_rows |-> Len(mask),
      total_cells |-> total_cells,
      correct_cells |-> correct_cells,
      incorrect_cells |-> total_cells - correct_cells,
      accuracy |-> accuracy_of(correct_cells, total_cells),
      diff_list |-> IF total_cells - correct_cells > 0
                       THEN diff_rows(mask, common_cols, preprocess_frame(true_aligned),
                                      preprocess_frame(extracted_aligned), 1, 1)
                       ELSE << >> ]

\* the counts main prints and the differences it lists, from the mask
counts(common_cols, true_aligned, extracted_aligned, mask, total_cells, correct_cells) ==
    [ status |-> "ok", what |-> "",
      common_cols |-> common_cols,
      matched_rows |-> Len(mask),
      total_cells |-> total_cells,
      correct_cells |-> correct_cells,
      incorrect_cells |-> total_cells - correct_cells,
      accuracy |-> accuracy_of(correct_cells, total_cells),
      diff_list |-> IF total_cells - correct_cells > 0
                       THEN diff_rows(mask, common_cols, true_aligned, extracted_aligned, 1, 1)
                       ELSE << >> ]

\* the cell by cell comparison: a comparison that raises ends main
compare_cells(common_cols, true_aligned, extracted_aligned, mask) ==
    IF \E rc \in MaskCells(mask) : mask[rc[1]][rc[2]].raised
       THEN Raised("RuntimeError", "cell comparison")
       ELSE counts(common_cols, true_aligned, extracted_aligned, mask,
                   mask_size(mask, Len(common_cols)), count_correct(mask))

\* the shape checks of the preprocessed frames, then the comparison
compare_processed(common_cols, true_aligned, extracted_aligned, true_processed, extracted_processed) ==
    IF Len(true_processed) # Len(extracted_processed)
       THEN Raised("ValueError", "shapes do not match")
    ELSE IF Len(true_processed) = 0
       THEN Raised("ValueError", "processed frame is empty")
    ELSE compare_cells(common_cols, true_aligned, extracted_aligned,
                       correct_mask(true_processed, extracted_processed))

\* the frames cut to the common columns are preprocessed and compared
compare_aligned(common_cols, true_aligned, extracted_aligned) ==
    compare_processed(common_cols, true_aligned, extracted_aligned,
                      preprocess_frame(true_aligned), preprocess_frame(extracted_aligned))

\* the common columns are found; without any, main raises
compare_standardized(df_true_std, df_extracted_std, common_cols) ==
    IF common_cols = << >>
       THEN Raised("ValueError", "no common columns")
       ELSE compare_aligned(common_cols, aligned(df_true_std, common_cols),
                            aligned(df_extracted_std, common_cols))

\* the rows found for the report: without a row on either side main raises,
\* else the columns are renamed and intersected
compare_filtered(df_true_filtered, df_extracted_filtered) ==
    IF df_true_filtered.rows = << >>
       THEN Raised("ValueError", "no ground truth row")
    ELSE IF df_extracted_filtered.rows = << >>
       THEN Raised("ValueError", "no extracted row")
    ELSE compare_standardized(
             standardize_columns(df_true_filtered),
             standardize_columns(df_extracted_filtered),
             common_columns(standardize_columns(df_true_filtered),
                            standardize_columns(df_extracted_filtered)))

\* the id columns are cleaned and the rows of the report selected
filter_and_compare(id, df_true, df_extracted, id_col_true, id_col_extracted) ==
    compare_filtered(
        filter_by_id(clean_id_column(df_true, id_col_true), id_col_true, id),
        filter_extracted(clean_id_column(df_extracted, id_col_extracted),
                         id_col_extracted, id))

\* main, from the two tables read to the counts: the id columns are found,
\* the rows of the report selected, the columns renamed and intersected, the
\* cells compared
score_report(id, df_true, df_extracted) ==
    IF find_id_col(df_true) = NoColumn
       THEN Raised("ValueError", "no report id column in ground truth")
    ELSE IF find_id_col(df_extracted) = NoColumn
       THEN Raised("ValueError", "no report id column in extracted data")
    ELSE filter_and_compare(id, df_true, df_extracted,
                            find_id_col(df_true), find_id_col(df_extracted))

\* the inputs of the scorer: report ids, the ids and cells tables hold, and
\* the columns of the two tables
ReportIds == { << "R", "R", "I", "0", "0", "2" >>, << "R", "R", "I", " ", "0", "0", "2" >> }

TableIds == { << "R", "R", "I", " ", "0", "0", "2" >>, << "R", "R", "I", "0", "0", "3" >> }

TrueCells == { NaN, << "1" >>, << "N", "A", "N" >> }

ExtractedCells ==
    { << "n", "/", "a" >>, << "P", "r", "e", "s", "e", "n", "t" >>, << "1" >>, << "N", "A", "N" >> }

TrueIdColumns == { "Report ID", "ID" }

ExtractedIdColumns == { "Report ID", "Report" }

TrueColumnSets ==
    { { "Fibroids identified", "Right uteroscaral nodule size (mm)" } }

ExtractedColumnSets ==
    { { "Fibroids identified", "Right uterosacral nodule size (mm)" },
      { "Fibroids identified" },
      { "Radiologist Notes" } }

MaxRows == 2

\* the tables with one of the id columns, one of the column sets, up to n
\* rows with ids from ids, and in each data column one of the cells
Tables(id_cols, column_sets, ids, cells, n) ==
    UNION { UNION { UNION {
        { [ columns |-> { id_col } \cup cs,
            rows |-> [ i \in 1..k |->
                         [ c \in { id_col } \cup cs |->
                             IF c = id_col THEN id_seq[i] ELSE cell_of[c] ] ] ]
          : id_seq \in [ 1..k -> ids ], cell_of \in [ cs -> cells ] }
        : k \in 1..n } : cs \in column_sets } : id_col \in id_cols }

\* how evaluation.py ends as a script: the status main ended with, or the
\* usage message when the argument count is wrong
EvaluationEndings ==
    { "ok", "FileNotFoundError", "ValueError", "IOError", "RuntimeError", "usage" }

\* the exit code of evaluation.py: sys.exit(1) after the usage message and
\* after every exception of main, 0 otherwise
evaluation_exit_code(ending) == IF ending = "ok" THEN 0 ELSE 1

NoScore == Raised("", "")

\* what main can find on disk before it reads the tables
FileStates ==
    { "ok", "no accuracy folder", "no ground truth file", "no extracted file",
      "unreadable" }

\* a table main never read
Unread == [ columns |-> {}, rows |-> << >> ]

\* main up to the counts: the accuracy folder is made, the two files are
\* looked for and read, then the report is scored
main_result(found, id, df_true, df_extracted) ==
    IF found = "no accuracy folder" THEN Raised("IOError", "accuracy folder")
    ELSE IF found = "no ground truth file" THEN Raised("FileNotFoundError", "ground truth file")
    ELSE IF found = "no extracted file" THEN Raised("FileNotFoundError", "extracted file")
    ELSE IF found = "unreadable" THEN Raised("IOError", "reading Excel files")
    ELSE score_report(id, df_true, df_extracted)

\* f"{accuracy:.4f}": the accuracy rounded to ten-thousandths, as their number
format_4f(accuracy) == (2 * 10000 * accuracy[1] + accuracy[2]) \div (2 * accuracy[2])

\* no accuracy file
NoFile ==
    [ exists |-> FALSE,
      header |-> [ report |-> << >>, columns |-> << >>, total_cells |-> 0,
                   correct_cells |-> 0, incorrect_cells |-> 0, accuracy |-> 0 ],
      differences |-> << >> ]

\* the header block main writes
header_of(id, result) ==
    [ report |-> report_id_formatted(id),
      columns |-> result.common_cols,
      total_cells |-> result.total_cells,
      correct_cells |-> result.correct_cells,
      incorrect_cells |-> result.incorrect_cells,
      accuracy |-> format_4f(result.accuracy) ]

\* how the writes of main end: both done, the open for the header raises, or
\* the append of the differences raises
SaveOutcomes == { "written", "open failed", "append failed" }

\* the try block of the save raised
save_raises(result, save) ==
    \/ save = "open failed"
    \/ save = "append failed" /\ result.diff_list # << >>

\* the accuracy file written without the differences
saved_file_without_differences(file, id, result, save) ==
    IF result.status # "ok" \/ save = "open failed" THEN file
    ELSE [ exists |-> TRUE, header |-> header_of(id, result), differences |-> << >> ]

\* the accuracy file if main opened it for writing before it scored
saved_file_opened_first(file, id, result, save) ==
    IF save = "open failed" THEN file
    ELSE IF result.status # "ok"
       THEN [ exists |-> TRUE, header |-> NoFile.header, differences |-> << >> ]
    ELSE [ exists |-> TRUE,
           header |-> header_of(id, result),
           differences |-> IF save = "append failed" THEN << >> ELSE result.diff_list ]

\* the accuracy file after main: untouched when main raised before the save
\* or the open raised, else the header, and the differences when there are
\* any and their append did not raise
saved_file(file, id, result, save) ==
    IF result.status # "ok" \/ save = "open failed" THEN file
    ELSE [ exists |-> TRUE,
           header |-> header_of(id, result),
           differences |-> IF save = "append failed" THEN << >> ELSE result.diff_list ]

\* evaluation.py was not run before
NoRun == [ hash_seed |-> 0, score |-> NoScore ]

ScorerIdle ==
    /\ report_id = << >>
    /\ df_true_orig = Unread
    /\ df_extracted_orig = Unread
    /\ score = NoScore
    /\ files = "idle"
    /\ accuracy_file = NoFile
    /\ save_error = FALSE
    /\ exit_code = -1
    /\ spc = "idle"
    /\ hash_seed = 0
    /\ previous_run = NoRun

\* what evaluation.py is run on: a report id, what is on disk, and the two
\* tables when they can be read
ScorerInputs(true_tables, extracted_tables) ==
    /\ report_id \in ReportIds
    /\ files \in FileStates
    /\ IF files = "ok"
          THEN /\ df_true_orig \in true_tables
               /\ df_extracted_orig \in extracted_tables
          ELSE /\ df_true_orig = Unread
               /\ df_extracted_orig = Unread
    /\ score = NoScore
    /\ save_error = FALSE
    /\ exit_code = -1
    /\ spc = "ready"
    /\ previous_run = NoRun

InitScorer ==
    /\ ScorerInputs(Tables(TrueIdColumns, TrueColumnSets, TableIds, TrueCells, MaxRows),
                    Tables(ExtractedIdColumns, ExtractedColumnSets, TableIds,
                           ExtractedCells, MaxRows))
    /\ accuracy_file = NoFile
    /\ hash_seed = 0

\* evaluation.py run for report_id: main reads and scores the two tables and
\* saves the accuracy file, and the script exits
ScoreReport ==
    /\ spc = "ready"
    /\ score' = main_result(files, report_id, df_true_orig, df_extracted_orig)
    /\ \E save \in SaveOutcomes :
          /\ accuracy_file' = saved_file(accuracy_file, report_id, score', save)
          /\ save_error' = (score'.status = "ok" /\ save_raises(score', save))
    /\ exit_code' = evaluation_exit_code(score'.status)
    /\ spc' = "done"
    /\ UNCHANGED << report_id, df_true_orig, df_extracted_orig, files,
                    hash_seed, previous_run >>

\* evaluation.py is launched again for the same report, in a new process, on
\* the files the run before it read and with the accuracy file that run left
RunAgain ==
    /\ spc = "done"
    /\ previous_run = NoRun
    /\ previous_run' = [ hash_seed |-> hash_seed, score |-> score ]
    /\ hash_seed' \in HashSeeds
    /\ save_error' = FALSE
    /\ exit_code' = -1
    /\ spc' = "ready"
    /\ UNCHANGED << report_id, df_true_orig, df_extracted_orig, files, score,
                    accuracy_file >>

-----------------------------------------------------------------------------
(* evaluation.py: preprocess, applied to a frame of one cell               *)

\* the cells preprocess is given: an empty Excel cell, and texts in several
\* letter cases, padded and not
PreprocessCells ==
    { NaN,
      << "n", "a", "n" >>,
      << "N", "A", "N" >>,
      << "N", "a", "n" >>,
      << " ", "n", "a", "n", " " >>,
      << "n", "o", "n", "e" >>,
      << "N", "O", "N", "E" >>,
      << "N", "o", "n", "e" >>,
      << " ", "n", "o", "n", "e", " " >>,
      << "n", "a" >>,
      << "N", "A" >>,
      << "N", "a" >>,
      << " ", "n", "a", " " >>,
      << "n", "/", "a" >>,
      << "N", "/", "A" >>,
      << "N", "/", "a" >>,
      << " ", "n", "/", "a", " " >>,
      << "n", "a", "t" >>,
      << "N", "A", "T" >>,
      << "N", "a", "t" >>,
      << " ", "n", "a", "t", " " >>,
      << "u", "n", "s", "p", "e", "c", "i", "f", "i", "e", "d" >>,
      << "U", "N", "S", "P", "E", "C", "I", "F", "I", "E", "D" >>,
      << "U", "n", "s", "p", "e", "c", "i", "f", "i", "e", "d" >>,
      << " ", "u", "n", "s", "p", "e", "c", "i", "f", "i", "e", "d", " " >>,
      << "n", "o", "t", " ", "s", "p", "e", "c", "i", "f", "i", "e", "d" >>,
      << "N", "O", "T", " ", "S", "P", "E", "C", "I", "F", "I", "E", "D" >>,
      << "N", "o", "t", " ", "s", "p", "e", "c", "i", "f", "i", "e", "d" >>,
      << " ", "n", "o", "t", " ", "s", "p", "e", "c", "i", "f", "i", "e", "d", " " >>,
      << "n", "u", "l", "l" >>,
      << "N", "U", "L", "L" >>,
      << "N", "u", "l", "l" >>,
      << " ", "n", "u", "l", "l", " " >>,
      << >>,
      << " " >>,
      << " ", " " >>,
      << "t", "e", "x", "t" >>,
      << " ", "t", "e", "x", "t", " " >>,
      << "T", "e", "x", "t" >>,
      << "0" >>,
      << " ", "5", " " >>,
      << "1" >>,
      << "n", "a", "n", "o" >>,
      << "n", " ", "a" >>,
      << "n", "o", "t", " ", " ", "s", "p", "e", "c", "i", "f", "i", "e", "d" >>,
      << "n", "o", "n", "e", "." >>,
      << "a", " ", "n", "a", "n" >>,
      << "N", "o", "t", " ", "S", "p", "e", "c", "i", "f", "i", "e", "d" >>,
      << " ", "N", "U", "L", "L", " " >>,
      << "n", "a", "n", " ", "n", "a", "n" >>,
      << "n", "o" >>,
      << "N", "O" >>,
      << "7", ".", "0" >>,
      << "x" >>,
      << "N", "o", "n", "e", " " >>,
      << " ", "N", "/", "A" >> }

NotProcessed == << "<not processed>" >>

PreprocessIdle ==
    /\ cell = << >>
    /\ processed = NotProcessed
    /\ ppc = "idle"

InitPreprocess ==
    /\ cell \in PreprocessCells
    /\ processed = NotProcessed
    /\ ppc = "ready"

\* preprocess(df) for the frame that holds cell
Preprocess ==
    /\ ppc = "ready"
    /\ processed' = preprocess(cell)
    /\ ppc' = "done"
    /\ UNCHANGED cell

-----------------------------------------------------------------------------
(* main.py: run_main_workflow, process_report, run_script                  *)
(*                                                                         *)
(* What a step of process_report meets is an input: whether the output     *)
(* directories can be made, and how each script ends. The row process_     *)
(* report appends to the timing log is taken to be written.                *)

\* how a subprocess ends: with an exit code, or not started because the
\* script or the interpreter is not found
ScriptNotFound == -1

ScriptEndings == { 0, 1, ScriptNotFound }

\* a script reported as run whatever its exit code
run_script_ignoring_exit_code(ending) == ending # ScriptNotFound

\* run_script: True when the subprocess ended with exit code 0; a non-zero
\* code (CalledProcessError) and a missing script (FileNotFoundError) give False
run_script(ending) == ending = 0

\* what one call of process_report meets
StepOutcomes ==
    [ makedirs : BOOLEAN,
      api_interaction : ScriptEndings,
      data_validation : ScriptEndings,
      json_to_excel : ScriptEndings,
      evaluation : EvaluationEndings ]

\* the scripts process_report launches, in the order of its steps
StepScripts ==
    << "api_interaction.py", "data_validation.py", "json_to_excel.py", "evaluation.py" >>

\* the command run_script builds, as the sys.argv of the script: the script,
\* then dataset_name, report_id and the two optional arguments
run_script_command(script_name, dataset_name, report_id_arg, arg1, arg2) ==
    << script_name, dataset_name, report_id_arg, arg1, arg2 >>

\* the len(sys.argv) a script insists on before it calls its main
accepted_argv_length(script_name) ==
    IF script_name = "api_interaction.py" THEN 5 ELSE 4

\* how a launched script ends: when the interpreter and the script are found
\* and the argument count is not the one the script insists on, with its
\* usage message and exit code 1, else as its main makes it end
script_ending(script_name, argv, main_ending) ==
    IF main_ending = ScriptNotFound THEN ScriptNotFound
    ELSE IF Len(argv) # accepted_argv_length(script_name) THEN 1
    ELSE main_ending

\* one call of run_script by process_report: the script, the command, and
\* what run_script returned
launch(script_name, last_arg, main_ending) ==
    [ script |-> script_name,
      argv |-> run_script_command(script_name, "dataset_name", "report_id",
                                  "provider_name", last_arg),
      returned |-> run_script(
                     script_ending(script_name,
                                   run_script_command(script_name, "dataset_name",
                                                      "report_id", "provider_name", last_arg),
                                   main_ending)) ]

\* the four calls of run_script process_report can make
launch_of(k, steps) ==
    IF k = 1 THEN launch(StepScripts[1], "model_id", steps.api_interaction)
    ELSE IF k = 2 THEN launch(StepScripts[2], "model_name_slug", steps.data_validation)
    ELSE IF k = 3 THEN launch(StepScripts[3], "model_name_slug", steps.json_to_excel)
    ELSE launch(StepScripts[4], "model_name_slug", evaluation_exit_code(steps.evaluation))

\* process_report launching every script whatever the one before returned
process_report_launches_all(steps, skip) ==
    [ k \in 1..4 |-> launch_of(k, steps) ]

\* the calls of run_script process_report makes, in order: none when the
\* directories cannot be made, none after a call that returned False, and
\* none of evaluation.py when the evaluation is skipped
process_report_launches(steps, skip) ==
    IF ~steps.makedirs THEN << >>
    ELSE IF ~launch_of(1, steps).returned THEN << launch_of(1, steps) >>
    ELSE IF ~launch_of(2, steps).returned THEN << launch_of(1, steps), launch_of(2, steps) >>
    ELSE IF ~launch_of(3, steps).returned \/ skip
       THEN << launch_of(1, steps), launch_of(2, steps), launch_of(3, steps) >>
    ELSE [ k \in 1..4 |-> launch_of(k, steps) ]

\* the file api_interaction.py writes for a report: the folder, by the config
\* function that names it, and the file name
extraction_output_file(id) ==
    [ folder |-> "get_extracted_json_raw_dir",
      name |-> [ stem |-> id, suffix |-> "_extracted_data.json" ] ]

\* the file data_validation.py reads and the file it writes
validation_files(id) ==
    [ input |-> [ folder |-> "get_extracted_json_raw_dir",
                  name |-> [ stem |-> report_id_formatted(id),
                             suffix |-> "_extracted_data.json" ] ],
      output |-> [ folder |-> "get_extracted_json_checked_dir",
                   name |-> [ stem |-> report_id_formatted(id),
                              suffix |-> "_extracted_data.json" ] ] ]

\* the file json_to_excel.py reads and the file it writes
conversion_files(id) ==
    [ input |-> [ folder |-> "get_extracted_json_checked_dir",
                  name |-> [ stem |-> report_id_formatted(id),
                             suffix |-> "_extracted_data.json" ] ],
      output |-> [ folder |-> "get_extracted_excel_dir",
                   name |-> [ stem |-> report_id_formatted(id),
                              suffix |-> "_extracted_data.xlsx" ] ] ]

\* the extracted table evaluation.py reads
evaluation_input_file(id) ==
    [ folder |-> "get_extracted_excel_dir",
      name |-> [ stem |-> report_id_formatted(id), suffix |-> "_extracted_data.xlsx" ] ]

\* process_report reached the timing log: the directories were made and
\* api_interaction.py ran
timing_logged(steps) == steps.makedirs /\ launch_of(1, steps).returned

\* process_report: the four steps in order, False at the first that fails
process_report(steps, skip) ==
    IF ~steps.makedirs THEN FALSE
    ELSE IF ~launch_of(1, steps).returned THEN FALSE
    ELSE IF ~launch_of(2, steps).returned THEN FALSE
    ELSE IF ~launch_of(3, steps).returned THEN FALSE
    ELSE IF ~skip /\ ~launch_of(4, steps).returned THEN FALSE
    ELSE TRUE

\* process_report was not called
NoProcess == [ launched |-> << >>, result |-> FALSE ]

\* the report ids a workflow is given, and the longest list
WorkflowReportIds == ReportIds \cup TableIds

MaxReports == 3

WorkflowIdle ==
    /\ report_ids = << >>
    /\ skip_eval = FALSE
    /\ attempted = << >>
    /\ last_process = NoProcess
    /\ success_count = 0
    /\ failure_count = 0
    /\ timing_log = << >>
    /\ wpc = "idle"

InitWorkflow ==
    /\ report_ids \in UNION { [ 1..n -> WorkflowReportIds ] : n \in 0..MaxReports }
    /\ skip_eval \in BOOLEAN
    /\ attempted = << >>
    /\ last_process = NoProcess
    /\ success_count = 0
    /\ failure_count = 0
    /\ timing_log = << >>
    /\ wpc = "ready"

\* run_main_workflow up to the loop: an empty list returns at once
StartWorkflow ==
    /\ wpc = "ready"
    /\ wpc' = IF Len(report_ids) = 0 THEN "returned" ELSE "loop"
    /\ UNCHANGED << report_ids, skip_eval, attempted, last_process, success_count,
                    failure_count, timing_log >>

\* one iteration of a loop that a failed report ends
ProcessReportStoppingAtFailure ==
    /\ wpc = "loop"
    /\ Len(attempted) < Len(report_ids)
    /\ \E steps \in StepOutcomes :
          /\ attempted' = Append(attempted, report_ids[Len(attempted) + 1])
          /\ last_process' = [ launched |-> process_report_launches(steps, skip_eval),
                               result |-> process_report(steps, skip_eval) ]
          /\ timing_log' = IF timing_logged(steps)
                              THEN Append(timing_log, report_ids[Len(attempted) + 1])
                              ELSE timing_log
          /\ success_count' = IF process_report(steps, skip_eval)
                                 THEN success_count + 1 ELSE success_count
          /\ failure_count' = IF process_report(steps, skip_eval)
                                 THEN failure_count ELSE failure_count + 1
          /\ wpc' = IF process_report(steps, skip_eval) THEN "loop" ELSE "finished"
    /\ UNCHANGED << report_ids, skip_eval >>

\* one iteration of the loop: process_report for the next id, then the count
ProcessReport ==
    /\ wpc = "loop"
    /\ Len(attempted) < Len(report_ids)
    /\ \E steps \in StepOutcomes :
          /\ attempted' = Append(attempted, report_ids[Len(attempted) + 1])
          /\ last_process' = [ launched |-> process_report_launches(steps, skip_eval),
                               result |-> process_report(steps, skip_eval) ]
          /\ timing_log' = IF timing_logged(steps)
                              THEN Append(timing_log, report_ids[Len(attempted) + 1])
                              ELSE timing_log
          /\ success_count' = IF process_report(steps, skip_eval)
                                 THEN success_count + 1 ELSE success_count
          /\ failure_count' = IF process_report(steps, skip_eval)
                                 THEN failure_count ELSE failure_count + 1
    /\ UNCHANGED << report_ids, skip_eval, wpc >>

\* the loop is over: the summary is printed
FinishWorkflow ==
    /\ wpc = "loop"
    /\ Len(attempted) = Len(report_ids)
    /\ wpc' = "finished"
    /\ UNCHANGED << report_ids, skip_eval, attempted, last_process, success_count,
                    failure_count, timing_log >>

-----------------------------------------------------------------------------
(* The corpus summary (reporting.generate_report). The accuracies are       *)
(* float64 values; a non-negative double is written as its binary digits   *)
(* in a fixed-point window wide enough to hold every value exactly, so the *)
(* arithmetic below rounds exactly as IEEE 754 does.                       *)

\* significant binary digits of a float64
MantissaBits == 53

\* digits of the window before and after the binary point
IntegerBits == 3
FractionBits == 70
Width == IntegerBits + FractionBits

\* the double 0.0
Zero == [ i \in 1..Width |-> 0 ]

RECURSIVE Pow2(_)
Pow2(n) == IF n = 0 THEN 1 ELSE 2 * Pow2(n - 1)

RECURSIVE Expansion(_, _, _)
\* the first n binary digits of the fraction r / den, followed by 1 when
\* digits other than 0 remain after them and by 0 otherwise
Expansion(r, den, n) ==
    IF n = 0 THEN << (IF r = 0 THEN 0 ELSE 1) >>
    ELSE << (2 * r) \div den >> \o Expansion((2 * r) % den, den, n - 1)

\* the exact quotient num / den in the window, with the remainder digit
Exact(num, den) ==
    [ i \in 1..IntegerBits |-> ((num \div den) \div Pow2(IntegerBits - i)) % 2 ]
       \o Expansion(num % den, den, FractionBits)

\* the position of the first digit 1, or 0 for zero
LeadingOne(x) ==
    IF \E i \in 1..Width : x[i] = 1
       THEN CHOOSE i \in 1..Width : x[i] = 1 /\ \A j \in 1..(i - 1) : x[j] = 0
       ELSE 0

RECURSIVE Increment(_, _)
\* x plus one unit of digit i
Increment(x, i) ==
    IF i = 0 THEN x
    ELSE IF x[i] = 0 THEN [ x EXCEPT ![i] = 1 ]
    ELSE Increment([ x EXCEPT ![i] = 0 ], i - 1)

\* the digits of x up to position last, rounded to nearest, ties to even
RoundAt(x, last) ==
    IF x[last + 1] = 1 /\ (x[last] = 1 \/ \E i \in (last + 2)..(Width + 1) : x[i] = 1)
       THEN Increment([ i \in 1..Width |-> IF i <= last THEN x[i] ELSE 0 ], last)
       ELSE [ i \in 1..Width |-> IF i <= last THEN x[i] ELSE 0 ]

\* x rounded to the MantissaBits digits from its first digit 1 on
Rounded(x) ==
    IF LeadingOne(x) = 0 THEN Zero
    ELSE IF LeadingOne(x) + MantissaBits - 1 >= Width THEN SubSeq(x, 1, Width)
    ELSE RoundAt(x, LeadingOne(x) + MantissaBits - 1)

\* an exact value (window digits and remainder digit) rounded to float64
round_to_double(x) == CHOOSE r \in { Rounded(v) : v \in { x } } : TRUE

\* float(accuracy_str) for the text of units ten-thousandths ("0.1000" is 1000)
float_of(units) == round_to_double(Exact(units, 10000))

RECURSIVE AddDigits(_, _, _, _)
\* the digits 1..i of the exact sum a + b, given the carry into digit i
AddDigits(a, b, i, carry) ==
    IF i = 0 THEN << >>
    ELSE IF a[i] + b[i] + carry >= 2
       THEN Append(AddDigits(a, b, i - 1, 1), a[i] + b[i] + carry - 2)
       ELSE Append(AddDigits(a, b, i - 1, 0), a[i] + b[i] + carry)

\* a + b in float64
add(a, b) ==
    CHOOSE r \in { Rounded(Append(AddDigits(u, v, Width, 0), 0)) : u \in { a }, v \in { b } } : TRUE

RECURSIVE DivideDigits(_, _, _, _)
\* long division of a by the integer n from digit i on, rem carried in
DivideDigits(a, n, i, rem) ==
    IF i > Width THEN << (IF rem = 0 THEN 0 ELSE 1) >>
    ELSE << (2 * rem + a[i]) \div n >> \o DivideDigits(a, n, i + 1, (2 * rem + a[i]) % n)

\* a / n in float64
divide(a, n) ==
    CHOOSE r \in { round_to_double(DivideDigits(u, n, 1, 0)) : u \in { a } } : TRUE

RECURSIVE less_from(_, _, _)
\* a < b, given that they agree before digit i
less_from(a, b, i) ==
    IF i > Width THEN FALSE
    ELSE IF a[i] # b[i] THEN a[i] < b[i]
    ELSE less_from(a, b, i + 1)

\* a < b
less(a, b) == \E u \in { a }, v \in { b } : less_from(u, v, 1)

RECURSIVE sum_loop(_, _)
\* xs[1..i] added left to right from 0.0, the order in which numpy adds
\* fewer than 8 values
sum_loop(xs, i) == IF i = 0 THEN Zero ELSE add(sum_loop(xs, i - 1), xs[i])

\* the sum of the values without the division by their number
np_sum(xs) == sum_loop(xs, Len(xs))

\* np.mean for fewer than 8 values
np_mean(xs) == divide(sum_loop(xs, Len(xs)), Len(xs))

\* the j-th smallest of the values xs
kth_smallest(xs, j) ==
    CHOOSE x \in { xs[i] : i \in 1..Len(xs) } :
       /\ Cardinality({ i \in 1..Len(xs) : less(xs[i], x) }) < j
       /\ j <= Cardinality({ i \in 1..Len(xs) : ~less(x, xs[i]) })

\* np.median: the middle value, or the mean of the two middle values
np_median(xs) ==
    IF Len(xs) % 2 = 1 THEN kth_smallest(xs, (Len(xs) + 1) \div 2)
    ELSE divide(add(kth_smallest(xs, Len(xs) \div 2), kth_smallest(xs, Len(xs) \div 2 + 1)), 2)

\* np.min and np.max
np_min(xs) == CHOOSE x \in { xs[i] : i \in 1..Len(xs) } : \A i \in 1..Len(xs) : ~less(xs[i], x)
np_max(xs) == CHOOSE x \in { xs[i] : i \in 1..Len(xs) } : \A i \in 1..Len(xs) : ~less(x, xs[i])

\* the first position of the value x in xs, counted from 1
first_index(xs, x) ==
    CHOOSE i \in 1..Len(xs) : xs[i] = x /\ \A j \in 1..(i - 1) : xs[j] # x

\* np.argmin and np.argmax, counted from 1: the first position of the extreme
np_argmin(xs) == CHOOSE i \in { first_index(xs, x) : x \in { np_min(xs) } } : TRUE
np_argmax(xs) == CHOOSE i \in { first_index(xs, x) : x \in { np_max(xs) } } : TRUE

RECURSIVE ScaleFraction(_, _, _, _, _)
\* m times the digits of x after the binary point, from digit i up to the
\* first one: the carry into the units, the digit worth one half, and
\* whether a digit below it is 1
ScaleFraction(x, m, i, carry, rest) ==
    IF i = IntegerBits + 1
       THEN [ units |-> (x[i] * m + carry) \div 2, half |-> (x[i] * m + carry) % 2, rest |-> rest ]
    ELSE IF (x[i] * m + carry) % 2 = 1
       THEN ScaleFraction(x, m, i - 1, (x[i] * m + carry) \div 2, TRUE)
       ELSE ScaleFraction(x, m, i - 1, (x[i] * m + carry) \div 2, rest)

RECURSIVE IntegerPart(_, _)
\* the value of the digits 1..i of x before the binary point
IntegerPart(x, i) == IF i = 0 THEN 0 ELSE 2 * IntegerPart(x, i - 1) + x[i]

\* units plus a fraction, rounded to the nearest integer, ties to even
RoundHalfEven(units, fraction) ==
    IF fraction.half = 1 /\ (fraction.rest \/ (units + fraction.units) % 2 = 1)
       THEN units + fraction.units + 1
       ELSE units + fraction.units

\* f"{x:.4f}" for a double x, in ten-thousandths: 10000 x rounded to the
\* nearest integer, ties to even
summary_4f(x) ==
    CHOOSE j \in UNION { { RoundHalfEven(10000 * IntegerPart(v, IntegerBits), f) :
                               f \in { ScaleFraction(v, 10000, Width, 0, FALSE) } } :
                          v \in { x } } : TRUE

RECURSIVE SumUnits(_, _)
SumUnits(ks, i) == IF i = 0 THEN 0 ELSE SumUnits(ks, i - 1) + ks[i]

RECURSIVE SumSquares(_, _)
SumSquares(ks, i) == IF i = 0 THEN 0 ELSE SumSquares(ks, i - 1) + ks[i] * ks[i]

RECURSIVE least_root(_, _, _, _)
\* the least s in lo..hi with sqrt(d) / n <= s + 1/2
least_root(d, n, lo, hi) ==
    IF lo = hi THEN lo
    ELSE IF 4 * d <= (2 * ((lo + hi) \div 2) + 1) * (2 * ((lo + hi) \div 2) + 1) * n * n
       THEN least_root(d, n, lo, (lo + hi) \div 2)
       ELSE least_root(d, n, (lo + hi) \div 2 + 1, hi)

\* the integers nearest to sqrt(d) / n: two of them when it lies midway
NearestToRoot(d, n) ==
    { s \in { least_root(d, n, 0, 5000), least_root(d, n, 0, 5000) + 1 } :
         /\ (s = 0 \/ (2 * s - 1) * (2 * s - 1) * n * n <= 4 * d)
         /\ 4 * d <= (2 * s + 1) * (2 * s + 1) * n * n }

\* f"{np.std(xs):.4f}" in ten-thousandths: the population standard deviation
\* of the values, whose rounding error is far below the fifth decimal, so
\* that the text is the rounded exact deviation of the texts the values were
\* read from; either neighbour when the exact deviation lies midway
std_4f(ks) ==
    NearestToRoot(Len(ks) * SumSquares(ks, Len(ks)) - SumUnits(ks, Len(ks)) * SumUnits(ks, Len(ks)), Len(ks))

\* the statistics generate_report prints, given the values numpy computed;
\* np.std is 0.0 exactly when no value differs from the computed mean
statistics(xs, ids, mean, median, minimum, maximum, std_text) ==
    [ count |-> Len(xs),
      average_accuracy |-> mean,
      median_accuracy |-> median,
      std_dev_is_zero |-> \A i \in 1..Len(xs) : xs[i] = mean,
      min_accuracy |-> minimum,
      max_accuracy |-> maximum,
      min_report_id |-> ids[np_argmin(xs)],
      max_report_id |-> ids[np_argmax(xs)],
      printed |-> [ average |-> summary_4f(mean),
                    median |-> summary_4f(median),
                    std_dev |-> std_text,
                    minimum |-> summary_4f(minimum),
                    maximum |-> summary_4f(maximum) ] ]

\* nothing computed
NoStatistics == [ count |-> 0 ]

\* the accuracy files of the folder in sorted order, and the report id
\* evaluation.py writes into each
FileNames == << "RRI001_accuracy.txt", "RRI002_accuracy.txt", "RRI003_accuracy.txt", "RRI004_accuracy.txt", "RRI005_accuracy.txt" >>
FileStems == << "RRI001", "RRI002", "RRI003", "RRI004", "RRI005" >>
FileReportIds == << "RRI 001", "RRI 002", "RRI 003", "RRI 004", "RRI 005" >>

\* filename.replace('_accuracy.txt', '').replace(' ', '')
filename_stem(filename) == FileStems[CHOOSE i \in 1..Len(FileNames) : FileNames[i] = filename]

\* a file without a "Report ID:" line, one without a line "Overall
\* accuracy:", and one whose accuracy text float() rejects
NoIdLine == "<None>"
NoAccuracyLine == -1
UnparsableAccuracyLine == -2

\* the accuracy texts of the files, in ten-thousandths
AccuracyTexts == { 1000, 5000, 10000 }

\* most files of the folder
MaxFiles == 3

\* what the i-th file of the folder may hold: an id line (possibly empty)
\* and an accuracy, an accuracy without an id line, an id without an
\* accuracy line or with one that is no number, or neither line
FileContents(i) ==
    [ filename : { FileNames[i] }, report_id : { FileReportIds[i] }, accuracy : AccuracyTexts ]
       \cup [ filename : { FileNames[i] }, report_id : { "", NoIdLine }, accuracy : { 1000 } ]
       \cup [ filename : { FileNames[i] }, report_id : { NoIdLine }, accuracy : { NoAccuracyLine } ]
       \cup [ filename : { FileNames[i] }, report_id : { FileReportIds[i] },
               accuracy : { NoAccuracyLine, UnparsableAccuracyLine } ]

RECURSIVE Folders(_)
\* the folders of n files
Folders(n) ==
    IF n = 0 THEN { << >> }
    ELSE { Append(f, c) : f \in Folders(n - 1), c \in FileContents(n) }

\* None as the accuracy extract_accuracy_from_file returns
NoAccuracy == << >>

\* extract_accuracy_from_file: the id and the accuracy when the file has
\* both, else the id (or None) and None
extract_accuracy_from_file(file) ==
    IF file.accuracy \in AccuracyTexts /\ file.report_id # NoIdLine
       THEN [ report_id |-> file.report_id, accuracy |-> float_of(file.accuracy) ]
       ELSE [ report_id |-> file.report_id, accuracy |-> NoAccuracy ]

\* a message is printed for the file: "Could not convert" for an accuracy
\* text that is no number, "Valid 'Overall accuracy' line not found" and
\* "Skipping report" for a file with an id and no accuracy
warns(file) ==
    \/ file.accuracy = UnparsableAccuracyLine
    \/ file.accuracy \notin AccuracyTexts /\ file.report_id \notin { NoIdLine, "" }

\* how the write of the summary file ends
SummarySaveOutcomes == { "written", "open failed" }

\* the id kept for an aggregated file: the one found in the file, or the
\* one derived from the filename when that is empty
kept_report_id(extracted, filename) ==
    IF extracted.report_id # "" THEN extracted.report_id ELSE filename_stem(filename)

\* the value of the summary's variables while another component runs
ReportingIdle ==
    /\ accuracy_files = << >>
    /\ files_read = 0
    /\ accuracies = << >>
    /\ summary_report_ids = << >>
    /\ summary = NoStatistics
    /\ report_exit = -1
    /\ warned = {}
    /\ summary_file = "absent"
    /\ gpc = "idle"

InitReporting ==
    /\ accuracy_files \in UNION { Folders(n) : n \in 0..MaxFiles }
    /\ files_read = 0
    /\ accuracies = << >>
    /\ summary_report_ids = << >>
    /\ summary = NoStatistics
    /\ report_exit = -1
    /\ warned = {}
    /\ summary_file = "absent"
    /\ gpc = "loop"

\* the lists after the loop body ran for a file that extracted was read from
accuracies_with(accs, extracted) ==
    IF extracted.accuracy # NoAccuracy THEN Append(accs, extracted.accuracy) ELSE accs

\* an id appended for every file with an id line
report_ids_with_every_id(ids, extracted, filename) ==
    IF extracted.report_id # NoIdLine THEN Append(ids, kept_report_id(extracted, filename)) ELSE ids

report_ids_with(ids, extracted, filename) ==
    IF extracted.accuracy # NoAccuracy THEN Append(ids, kept_report_id(extracted, filename)) ELSE ids

\* the loop body of generate_report for the next file in sorted order
ReadAccuracyFile ==
    /\ gpc = "loop"
    /\ files_read < Len(accuracy_files)
    /\ accuracies' = accuracies_with(accuracies, extract_accuracy_from_file(accuracy_files[files_read + 1]))
    /\ summary_report_ids' = report_ids_with(summary_report_ids, extract_accuracy_from_file(accuracy_files[files_read + 1]), accuracy_files[files_read + 1].filename)
    /\ files_read' = files_read + 1
    /\ warned' = IF warns(accuracy_files[files_read + 1])
                    THEN warned \cup { accuracy_files[files_read + 1].filename }
                    ELSE warned
    /\ UNCHANGED << accuracy_files, summary, report_exit, summary_file, gpc >>

\* no .txt file in the folder, or none with a valid accuracy: sys.exit(1)
ExitWithoutData ==
    /\ gpc = "loop"
    /\ files_read = Len(accuracy_files)
    /\ accuracies = << >>
    /\ report_exit' = 1
    /\ gpc' = "done"
    /\ UNCHANGED << accuracy_files, files_read, accuracies, summary_report_ids, summary,
                    warned, summary_file >>

\* the statistics are computed and printed, and the summary file is written
\* unless its open raises, which is only printed
Summarize ==
    /\ gpc = "loop"
    /\ files_read = Len(accuracy_files)
    /\ accuracies # << >>
    /\ \E mean \in { np_mean(accuracies) }, median \in { np_median(accuracies) },
          minimum \in { np_min(accuracies) }, maximum \in { np_max(accuracies) } :
          \E std_text \in std_4f([ i \in 1..Len(accuracies) |-> summary_4f(accuracies[i]) ]) :
             summary' = statistics(accuracies, summary_report_ids, mean, median,
                                   minimum, maximum, std_text)
    /\ \E save \in SummarySaveOutcomes :
          summary_file' = IF save = "written" THEN "written" ELSE summary_file
    /\ report_exit' = 0
    /\ gpc' = "done"
    /\ UNCHANGED << accuracy_files, files_read, accuracies, summary_report_ids, warned >>

-----------------------------------------------------------------------------
(* The reconciler's specification: check_and_fix applied to every template *)
(* and record of the bounded universe.                                     *)

\* the value of the oracle's variables while another component runs
OracleIdle ==
    /\ val1 = << >>
    /\ val2 = << >>
    /\ eq_result = NoResult
    /\ opc = "idle"

InitR == InitReconcile /\ OracleIdle /\ ScorerIdle /\ PreprocessIdle /\ WorkflowIdle /\ ReportingIdle

NextR == CheckAndFix /\ UNCHANGED << oracleVars, scorerVars, preprocessVars, workflowVars, reportingVars >>

SpecReconcile == InitR /\ [][NextR]_vars

\* the extra keys of the record that find_similar_keys classifies as a
\* misspelling of template key k
MisspellingsOf(k) ==
    { w \in DOMAIN fix_report.renamed : fix_report.renamed[w] = k }

\* C1: after check_and_fix the repaired record's key set equals the template's
\* key set exactly, whatever keys the record had.
C1_KeysEqualSchema ==
    vpc = "done" => DOMAIN corrected_data = DOMAIN template_data

\* C1 witness: a run on a record with a missing key, two misspellings of the
\* same template key, and an unrelated extra key.
C1_Witness ==
    /\ vpc = "done"
    /\ (DOMAIN template_data) \ (DOMAIN extracted_data) # {}
    /\ \E k \in DOMAIN template_data : Cardinality(MisspellingsOf(k)) >= 2
    /\ \E w \in (DOMAIN extracted_data) \ (DOMAIN template_data) :
          w \in fix_report.deleted

\* C2 (as claimed): every key the record and the template share by exact name
\* keeps, in the repaired record, the value the record held.
C2_ExactKeysKeepValue ==
    vpc = "done" =>
        \A k \in (DOMAIN template_data) \cap (DOMAIN extracted_data) :
            /\ k \in DOMAIN corrected_data
            /\ corrected_data[k] = extracted_data[k]

\* C3: a template key k absent from the record holds, in the repaired record,
\* the value of the misspelled key renamed to k when the record has one (the
\* last renamed, in sorted order, when it has several), and the template's own
\* default value for k otherwise.
C3_RenameBeforeDefault ==
    vpc = "done" =>
        \A k \in (DOMAIN template_data) \ (DOMAIN extracted_data) :
            /\ k \in DOMAIN corrected_data
            /\ IF MisspellingsOf(k) # {}
                  THEN corrected_data[k] = extracted_data[StrMax(MisspellingsOf(k))]
                  ELSE corrected_data[k] = template_data[k]

\* C3 witness: one absent key filled from a misspelled key, another absent key
\* filled with a non-empty template default.
C3_Witness ==
    /\ vpc = "done"
    /\ \E k \in (DOMAIN template_data) \ (DOMAIN extracted_data) :
          MisspellingsOf(k) # {}
    /\ \E k \in (DOMAIN template_data) \ (DOMAIN extracted_data) :
          MisspellingsOf(k) = {} /\ template_data[k] = << "0" >>

-----------------------------------------------------------------------------
(* The oracle's specification: cells_equal applied to every pair of cell   *)
(* values of the bounded universe.                                         *)

InitO == InitOracle /\ ReconcilerIdle /\ ScorerIdle /\ PreprocessIdle /\ WorkflowIdle /\ ReportingIdle

NextO == CellsEqual /\ UNCHANGED << reconcilerVars, scorerVars, preprocessVars, workflowVars, reportingVars >>

SpecOracle == InitO /\ [][NextO]_vars

\* both arguments are present (neither is the missing marker)
BothPresent == val1 # NA /\ val2 # NA

\* the text of a present value, trimmed and lowercased
Norm(v) == lower(strip(v))

\* C4 (as claimed): cells_equal(a, b) and cells_equal(b, a) return the same
\* result for every pair of cell values, numeric pairs included.
C4_Symmetric ==
    opc = "done" => eq_result.value = cells_equal(val2, val1).value

\* the texts the pipeline treats as spellings of a missing value
C5_SentinelTexts ==
    { << >>,
      << "n", "a", "n" >>,
      << "n", "o", "n", "e" >>,
      << "n", "a" >>,
      << "n", "/", "a" >>,
      << "n", "a", "t" >>,
      << "u", "n", "s", "p", "e", "c", "i", "f", "i", "e", "d" >>,
      << "n", "o", "t", " ", "s", "p", "e", "c", "i", "f", "i", "e", "d" >>,
      << "n", "u", "l", "l" >> }

\* C5 (as claimed): cells_equal(v, v) is true for every present value v that
\* is not a spelling of the missing value.
C5_Reflexive ==
    (opc = "done" /\ val1 = val2 /\ val1 # NA /\ Norm(val1) \notin C5_SentinelTexts)
        => eq_result.value = TRUE

\* the present texts the claim counts as equal to a missing value
C6_VacuousTexts ==
    { << "u", "n", "s", "p", "e", "c", "i", "f", "i", "e", "d" >>,
      << "n", "o", "t", " ", "s", "p", "e", "c", "i", "f", "i", "e", "d" >>,
      << "n", "/", "a" >>,
      << "n", "a" >>,
      << >>,
      << "n", "u", "l", "l" >>,
      << "0" >> }

\* C6: two missing values are equal; a missing and a present value are equal
\* exactly when the present one, trimmed and lowercased, is a vacuous text or
\* the literal 0.
C6_MissingEquivalence ==
    opc = "done" =>
        /\ (val1 = NA /\ val2 = NA) => eq_result.value = TRUE
        /\ (val1 = NA /\ val2 # NA) => eq_result.value = (Norm(val2) \in C6_VacuousTexts)
        /\ (val1 # NA /\ val2 = NA) => eq_result.value = (Norm(val1) \in C6_VacuousTexts)

\* C6 witness: a missing value met a vacuous text in mixed case, and matched.
C6_Witness ==
    /\ opc = "done"
    /\ val1 = NA
    /\ val2 = << "N", "o", "t", " ", "S", "p", "e", "c", "i", "f", "i", "e", "d" >>
    /\ eq_result.value = TRUE

C7_TrueLike(v) ==
    Norm(v) \in { << "1" >>,
                << "y", "e", "s" >>,
                << "p", "r", "e", "s", "e", "n", "t" >>,
                << "t", "r", "u", "e" >>,
                << "a", "c", "t", "i", "v", "e" >>,
                << "p", "o", "s", "i", "t", "i", "v", "e" >>,
                << "c", "o", "m", "p", "l", "e", "t", "e" >>,
                << "c", "o", "n", "v", "e", "n", "t", "i", "o", "n", "a", "l" >> }

C7_FalseLike(v) ==
    Norm(v) \in { << "0" >>,
                << "n", "o" >>,
                << "a", "b", "s", "e", "n", "t" >>,
                << "f", "a", "l", "s", "e" >>,
                << "i", "n", "a", "c", "t", "i", "v", "e" >>,
                << "n", "e", "g", "a", "t", "i", "v", "e" >>,
                << "n", "o", "r", "m", "a", "l" >> }

\* C7: two present values that are both true-like or both false-like are
\* equal, a true-like and a false-like value are not, and the boolean rule is
\* the one that decides.
C7_BooleanClosure ==
    (opc = "done" /\ BothPresent) =>
        /\ ((C7_TrueLike(val1) /\ C7_TrueLike(val2))
              \/ (C7_FalseLike(val1) /\ C7_FalseLike(val2)))
             => (eq_result.value = TRUE /\ eq_result.rule = "boolean")
        /\ ((C7_TrueLike(val1) /\ C7_FalseLike(val2))
              \/ (C7_FalseLike(val1) /\ C7_TrueLike(val2)))
             => (eq_result.value = FALSE /\ eq_result.rule = "boolean")

\* C7 witness: "0" met "Normal" and matched.
C7_Witness ==
    /\ opc = "done"
    /\ val1 = << "0" >>
    /\ val2 = << "N", "o", "r", "m", "a", "l" >>
    /\ eq_result.value = TRUE
    /\ eq_result.rule = "boolean"

\* both present values parse as finite numbers and the boolean rule leaves
\* the pair undecided
C8_NumericPair ==
    /\ BothPresent
    /\ ~(C7_TrueLike(val1) \/ C7_FalseLike(val1)) \/ ~(C7_TrueLike(val2) \/ C7_FalseLike(val2))
    /\ float(val1).kind = "finite"
    /\ float(val2).kind = "finite"

\* |a - b| <= 1e-08 + 1e-05 * |b| for the numbers the two texts spell
C8_WithinTolerance(a, b) ==
    LET s == Max2(Max2(a.s, b.s), 3)
        d == Abs(a.m * Pow10(s - a.s) - b.m * Pow10(s - b.s))
    IN  d <= 20000 /\ 100000 * d <= Pow10(s - 3) + Abs(b.m * Pow10(s - b.s))

\* C8 (as claimed): a numeric pair is equal iff within the tolerance; "7" and
\* "7.0" are equal, "7.001" and "7.0" are equal, "7.5" and "9" are not.
C8_NumericToleranceAsClaimed ==
    opc = "done" =>
        /\ C8_NumericPair =>
              eq_result.value = C8_WithinTolerance(float(val1), float(val2))
        /\ (val1 = << "7" >> /\ val2 = << "7", ".", "0" >>) => eq_result.value = TRUE
        /\ (val1 = << "7", ".", "0", "0", "1" >> /\ val2 = << "7", ".", "0" >>) => eq_result.value = TRUE
        /\ (val1 = << "7", ".", "5" >> /\ val2 = << "9" >>) => eq_result.value = FALSE

\* C8 (amended): a numeric pair is equal iff |a - b| <= 1e-08 + 1e-05 * |b|;
\* "7" and "7.0" are equal, "7.001" and "7.0" are not (0.001 is outside the
\* tolerance), "99999" and "100000" are, "7.5" and "9" are not.
C8_NumericTolerance ==
    opc = "done" =>
        /\ C8_NumericPair =>
              /\ eq_result.rule = "numeric"
              /\ eq_result.value = C8_WithinTolerance(float(val1), float(val2))
        /\ (val1 = << "7" >> /\ val2 = << "7", ".", "0" >>) => eq_result.value = TRUE
        /\ (val1 = << "7", ".", "0", "0", "1" >> /\ val2 = << "7", ".", "0" >>) => eq_result.value = FALSE
        /\ (val1 = << "9", "9", "9", "9", "9" >> /\ val2 = << "1", "0", "0", "0", "0", "0" >>) => eq_result.value = TRUE
        /\ (val1 = << "7", ".", "5" >> /\ val2 = << "9" >>) => eq_result.value = FALSE

\* C8 witness: "7.001" met "7.0" and the numeric rule found them unequal.
C8_Witness ==
    /\ opc = "done"
    /\ val1 = << "7", ".", "0", "0", "1" >>
    /\ val2 = << "7", ".", "0" >>
    /\ eq_result.rule = "numeric"
    /\ eq_result.value = FALSE

\* C9: cells_equal never raises; when the boolean rule leaves two present
\* values undecided and one of them is no number, the string rule decides:
\* equal iff identical after trimming and lowercasing.
C9_Total ==
    opc = "done" =>
        /\ eq_result.raised = FALSE
        /\ eq_result.value \in BOOLEAN
        /\ (/\ BothPresent
            /\ ~(C7_TrueLike(val1) \/ C7_FalseLike(val1))
                 \/ ~(C7_TrueLike(val2) \/ C7_FalseLike(val2))
            /\ float(val1).kind = "ValueError" \/ float(val2).kind = "ValueError")
           => (eq_result.rule = "string" /\ eq_result.value = (Norm(val1) = Norm(val2)))

\* C9 witness: a number met a text that is no number; the string rule decided.
C9_Witness ==
    /\ opc = "done"
    /\ val1 = << "7" >>
    /\ val2 = << " ", "t", "e", "x", "t" >>
    /\ eq_result.rule = "string"
    /\ eq_result.raised = FALSE
    /\ eq_result.value = FALSE

-----------------------------------------------------------------------------
(* The scorer's specification: main runs once on two tables read from      *)
(* Excel.                                                                  *)

InitS == InitScorer /\ ReconcilerIdle /\ OracleIdle /\ PreprocessIdle /\ WorkflowIdle /\ ReportingIdle

NextS == ScoreReport /\ UNCHANGED << reconcilerVars, oracleVars, preprocessVars, workflowVars, reportingVars >>

SpecScorer == InitS /\ [][NextS]_vars

\* main returned without raising
Scored == spc = "done" /\ score.status = "ok"

\* the rows of the ground truth whose id, cleaned, is the report id
C10_MatchedRows ==
    Cardinality({ i \in DOMAIN df_true_orig.rows :
                    \E c \in df_true_orig.columns :
                       /\ c = find_id_col(df_true_orig)
                       /\ clean_id(df_true_orig.rows[i][c]) = report_id })

\* the names the two tables share once their columns are renamed
C10_CommonColumns ==
    { RenamedColumn(c) : c \in df_true_orig.columns }
    \cap { RenamedColumn(c) : c \in df_extracted_orig.columns }

\* C10: for every scored report the total cell count is the number of matched
\* rows times the number of common columns (the id column among them when both
\* tables have it), correct plus incorrect is the total, the accuracy is
\* correct over total and lies between 0 and 1, and the accuracy of a total
\* of 0 is 0
C10_CountInvariant ==
    /\ accuracy_of(0, 0)[1] = 0
    /\ Scored =>
         /\ score.total_cells = C10_MatchedRows * Cardinality(C10_CommonColumns)
         /\ score.matched_rows = C10_MatchedRows
         /\ Len(score.common_cols) = Cardinality(C10_CommonColumns)
         /\ score.correct_cells >= 0
         /\ score.incorrect_cells >= 0
         /\ score.correct_cells + score.incorrect_cells = score.total_cells
         /\ score.accuracy[2] > 0
         /\ score.accuracy[1] * score.total_cells = score.correct_cells * score.accuracy[2]
         /\ 0 <= score.accuracy[1]
         /\ score.accuracy[1] <= score.accuracy[2]
         /\ score.total_cells = 0 => score.accuracy[1] = 0

\* a report scored over two matched rows, the id column among the common
\* columns, with correct and incorrect cells
C10_Witness ==
    /\ Scored
    /\ score.matched_rows = 2
    /\ "Report ID" \in C10_CommonColumns
    /\ Cardinality(C10_CommonColumns) = 3
    /\ score.correct_cells > 0
    /\ score.incorrect_cells > 0
    /\ score.total_cells = 6

\* the index in table df of its r-th row whose cleaned id is the report id
MatchedRow(df, r) ==
    CHOOSE i \in DOMAIN df.rows :
       /\ clean_id(df.rows[i][find_id_col(df)]) = report_id
       /\ Cardinality({ j \in 1..i : clean_id(df.rows[j][find_id_col(df)]) = report_id }) = r

\* the cell table df shows for its r-th matched row under the renamed column
\* name c: the cell as read, the id cell as cleaned
DisplayCell(df, r, c) ==
    LET c0 == CHOOSE x \in df.columns : RenamedColumn(x) = c
        v == df.rows[MatchedRow(df, r)][c0]
    IN  IF c0 = find_id_col(df) THEN clean_id(v) ELSE v

\* the compared cells in row then sorted column order, numbered from 1
C11_Cells == 1..(score.matched_rows * Len(score.common_cols))

C11_RowOf(k) == ((k - 1) \div Len(score.common_cols)) + 1

C11_ColumnOf(k) == score.common_cols[((k - 1) % Len(score.common_cols)) + 1]

\* the compared cells for which the oracle returns false on the normalized values
C11_Unequal ==
    { k \in C11_Cells :
        ~cells_equal(preprocess(DisplayCell(df_true_orig, C11_RowOf(k), C11_ColumnOf(k))),
                     preprocess(DisplayCell(df_extracted_orig, C11_RowOf(k), C11_ColumnOf(k)))).value }

\* C11: the difference list holds one entry per compared cell for which the
\* oracle returned false on the normalized values, as many as the incorrect
\* count, in row then sorted column order, each with the column and the two
\* values as they were before normalization
C11_DisagreementList ==
    Scored =>
      /\ Len(score.diff_list) = score.incorrect_cells
      /\ Len(score.diff_list) = Cardinality(C11_Unequal)
      /\ \A i \in 1..(Len(score.common_cols) - 1) :
            ColumnRank(score.common_cols[i]) < ColumnRank(score.common_cols[i + 1])
      /\ \A k \in C11_Unequal :
            score.diff_list[Cardinality({ j \in C11_Unequal : j <= k })] =
               [ Column |-> C11_ColumnOf(k),
                 TrueValue |-> DisplayCell(df_true_orig, C11_RowOf(k), C11_ColumnOf(k)),
                 ExtractedValue |-> DisplayCell(df_extracted_orig, C11_RowOf(k), C11_ColumnOf(k)) ]

\* a scored report with two disagreements in one row, one of them showing a
\* ground-truth cell that normalization replaces
C11_Witness ==
    /\ Scored
    /\ score.matched_rows = 1
    /\ Len(score.diff_list) = 2
    /\ score.diff_list[1].Column = "Fibroids identified"
    /\ score.diff_list[2].Column = "Right uterosacral nodule size (mm)"
    /\ score.diff_list[1].TrueValue = NaN
    /\ preprocess(score.diff_list[1].TrueValue) # score.diff_list[1].TrueValue
    /\ preprocess(score.diff_list[2].ExtractedValue) # score.diff_list[2].ExtractedValue

\* the extracted rows hold, in every common column, the text the ground-truth
\* rows hold
C12_SameTexts ==
    \A k \in C11_Cells :
       /\ DisplayCell(df_true_orig, C11_RowOf(k), C11_ColumnOf(k)) # NaN
       /\ DisplayCell(df_true_orig, C11_RowOf(k), C11_ColumnOf(k))
            = DisplayCell(df_extracted_orig, C11_RowOf(k), C11_ColumnOf(k))

\* C12: a report whose extracted row holds in every common column the same
\* text as the ground-truth row is scored with accuracy 1 and an empty
\* difference list, whatever the texts are
C12_ExactMatch ==
    (Scored /\ C12_SameTexts) =>
       /\ score.correct_cells = score.total_cells
       /\ score.accuracy[1] = score.accuracy[2]
       /\ score.diff_list = << >>

-----------------------------------------------------------------------------
(* The specification of value normalization: preprocess is applied to one  *)
(* cell.                                                                   *)

InitP == InitPreprocess /\ ReconcilerIdle /\ OracleIdle /\ ScorerIdle /\ WorkflowIdle /\ ReportingIdle

NextP == Preprocess /\ UNCHANGED << reconcilerVars, oracleVars, scorerVars, workflowVars, reportingVars >>

SpecPreprocess == InitP /\ [][NextP]_vars

\* the trimmed text of the cell
C13_Trimmed == strip(astype_str(cell))

\* C13: preprocess replaces by the missing marker every cell whose trimmed
\* text is empty or is, in any letter case, one of nan, none, na, n/a, nat,
\* unspecified, not specified, null; every other cell keeps its trimmed text
C13_Normalization ==
    ppc = "done" =>
       processed = IF C13_Trimmed = << >> \/ lower(C13_Trimmed) \in na_patterns
                      THEN NA
                      ELSE C13_Trimmed

\* the rows of table df whose stored id, whitespace removed, is the
\* requested report id, whitespace removed
C14_RowsOf(df) ==
    { i \in DOMAIN df.rows :
        SelectSeq(astype_str(df.rows[i][find_id_col(df)]), NotSpace)
           = SelectSeq(report_id, NotSpace) }

\* C14: ids are compared with all whitespace removed, on both tables: the
\* rows main selects are those whose stored id, whitespace removed, is the
\* requested report id, whitespace removed; main finds no row only when
\* there is none
C14_IdentifierLookup ==
    (/\ spc = "done"
     /\ find_id_col(df_true_orig) # NoColumn
     /\ find_id_col(df_extracted_orig) # NoColumn) =>
       /\ score.what = "no ground truth row" <=> C14_RowsOf(df_true_orig) = {}
       /\ score.what = "no extracted row" <=>
             (C14_RowsOf(df_true_orig) # {} /\ C14_RowsOf(df_extracted_orig) = {})
       /\ Scored => score.matched_rows = Cardinality(C14_RowsOf(df_true_orig))

\* the column names of table df once the rename table is applied
C15_Renamed(df) ==
    { c \in df.columns : c \notin DOMAIN COLUMN_NAME_MAPPING }
    \cup { COLUMN_NAME_MAPPING[c] : c \in df.columns \cap DOMAIN COLUMN_NAME_MAPPING }

\* main found the rows of the report in both tables
C15_RowsFound ==
    /\ spc = "done"
    /\ files = "ok"
    /\ score.what \notin { "no report id column in ground truth",
                           "no report id column in extracted data",
                           "no ground truth row", "no extracted row" }

\* C15: the columns compared are exactly those both rows have once the rename
\* table is applied to both; when there is none main raises and computes no
\* accuracy
C15_ColumnAlignment ==
    C15_RowsFound =>
       IF C15_Renamed(df_true_orig) \cap C15_Renamed(df_extracted_orig) = {}
          THEN /\ score.status = "ValueError"
               /\ score.what = "no common columns"
               /\ score.total_cells = 0
               /\ score.diff_list = << >>
          ELSE /\ score.what # "no common columns"
               /\ Scored =>
                    /\ { score.common_cols[i] : i \in DOMAIN score.common_cols }
                         = C15_Renamed(df_true_orig) \cap C15_Renamed(df_extracted_orig)
                    /\ Len(score.common_cols)
                         = Cardinality(C15_Renamed(df_true_orig) \cap C15_Renamed(df_extracted_orig))
                    /\ \A e \in { score.diff_list[i] : i \in DOMAIN score.diff_list } :
                          e.Column \in C15_Renamed(df_true_orig) \cap C15_Renamed(df_extracted_orig)

\* a scored report whose ground truth names a column by the misspelling and
\* whose extracted row names it correctly: the column is compared, and one
\* of its cells is a disagreement
C15_Witness ==
    /\ Scored
    /\ "Right uteroscaral nodule size (mm)" \in df_true_orig.columns
    /\ "Right uterosacral nodule size (mm)" \in df_extracted_orig.columns
    /\ \E i \in DOMAIN score.common_cols :
          score.common_cols[i] = "Right uterosacral nodule size (mm)"
    /\ \E i \in DOMAIN score.diff_list :
          score.diff_list[i].Column = "Right uterosacral nodule size (mm)"

-----------------------------------------------------------------------------
(* The workflow's specification: run_main_workflow on a list of report ids *)

InitW == InitWorkflow /\ ReconcilerIdle /\ OracleIdle /\ ScorerIdle /\ PreprocessIdle /\ ReportingIdle

NextW ==
    \/ StartWorkflow /\ UNCHANGED << reconcilerVars, oracleVars, scorerVars, preprocessVars, reportingVars >>
    \/ ProcessReport /\ UNCHANGED << reconcilerVars, oracleVars, scorerVars, preprocessVars, reportingVars >>
    \/ FinishWorkflow /\ UNCHANGED << reconcilerVars, oracleVars, scorerVars, preprocessVars, reportingVars >>

SpecWorkflow == InitW /\ [][NextW]_vars

C17_Persisted ==
    /\ accuracy_file.exists
    /\ accuracy_file.header.report = report_id_formatted(report_id)
    /\ accuracy_file.header.columns = score.common_cols
    /\ accuracy_file.header.total_cells = score.total_cells
    /\ accuracy_file.header.correct_cells = score.correct_cells
    /\ accuracy_file.header.incorrect_cells = score.incorrect_cells
    /\ accuracy_file.header.accuracy * score.total_cells <= 10000 * score.correct_cells + score.total_cells
    /\ accuracy_file.header.accuracy * score.total_cells >= 10000 * score.correct_cells - score.total_cells
    /\ Len(accuracy_file.differences) = score.incorrect_cells
    /\ accuracy_file.differences = score.diff_list

C18_WellFormed == template_loaded = "dict" /\ extracted_loaded = "dict"

\* C18 as claimed: check_and_fix fails only when the template or the record
\* cannot be loaded as a key-value mapping, and then the caller is told and
\* no repaired file is written; for a well-formed template and record it
\* always writes the repaired record and returns True
C18_FailureSemanticsAsClaimed ==
    vpc = "done" =>
       /\ validation_result = "True" <=> C18_WellFormed
       /\ validation_exit = 0 <=> C18_WellFormed
       /\ ~C18_WellFormed => checked_file = NoCheckedFile
       /\ C18_WellFormed =>
             checked_file = [ state |-> "written", data |-> corrected_data ]

\* C18, amended: check_and_fix fails when the template or the record cannot
\* be loaded as a key-value mapping, and then writes no repaired file, or
\* when the output directory or the repaired file cannot be written; the
\* caller is told in both cases (False or an exception, exit code 1). For a
\* well-formed template and record it always computes the repaired record,
\* and returns True with the record written whenever the save goes through
C18_FailureSemantics ==
    vpc = "done" =>
       /\ validation_exit = 0 <=> validation_result = "True"
       /\ validation_exit \in { 0, 1 }
       /\ validation_result = "True" <=>
             (C18_WellFormed /\ checked_file = [ state |-> "written", data |-> corrected_data ])
       /\ ~C18_WellFormed =>
             /\ validation_result \in { "False", "AttributeError", "FileNotFoundError" }
             /\ checked_file = NoCheckedFile
       /\ (C18_WellFormed /\ validation_result # "True") =>
             /\ validation_result = "False"
             /\ checked_file.state \in { "absent", "partial" }
       /\ C18_WellFormed => DOMAIN corrected_data = DOMAIN template_data

\* a well-formed template and record with a renamed key, repaired, written
\* and reported as success
C18_Witness ==
    /\ vpc = "done"
    /\ C18_WellFormed
    /\ validation_result = "True"
    /\ validation_exit = 0
    /\ checked_file.state = "written"
    /\ DOMAIN fix_report.renamed # {}
    /\ checked_file.data = corrected_data

-----------------------------------------------------------------------------
(* The summary's specification: generate_report run on every folder of the *)
(* bounded universe.                                                        *)

InitG ==
    /\ InitReporting
    /\ ReconcilerIdle /\ OracleIdle /\ ScorerIdle /\ PreprocessIdle /\ WorkflowIdle

NextG ==
    \/ ReadAccuracyFile /\ UNCHANGED << reconcilerVars, oracleVars, scorerVars, preprocessVars, workflowVars >>
    \/ ExitWithoutData /\ UNCHANGED << reconcilerVars, oracleVars, scorerVars, preprocessVars, workflowVars >>
    \/ Summarize /\ UNCHANGED << reconcilerVars, oracleVars, scorerVars, preprocessVars, workflowVars >>

SpecReporting == InitG /\ [][NextG]_vars

\* generate_report printed its statistics
Summarized == gpc = "done" /\ report_exit = 0

\* every aggregated accuracy was read from the text of units ten-thousandths
C19_AllEqual(units) ==
    /\ accuracies # << >>
    /\ \A i \in 1..Len(accuracies) : accuracies[i] = float_of(units)

\* C19 as claimed: N >= 1 accuracies all equal to X give mean = X,
\* median = X, standard deviation = 0, minimum = X and maximum = X, taken
\* as the values generate_report computes
C19_RoundTripAsClaimed ==
    \A units \in AccuracyTexts :
       (Summarized /\ C19_AllEqual(units)) =>
          /\ summary.average_accuracy = float_of(units)
          /\ summary.median_accuracy = float_of(units)
          /\ summary.std_dev_is_zero
          /\ summary.min_accuracy = float_of(units)
          /\ summary.max_accuracy = float_of(units)

\* C19, amended: N >= 1 accuracies all equal to X give, as printed with four
\* decimals, mean = X, median = X, standard deviation = 0.0000, minimum = X
\* and maximum = X; the computed median, minimum and maximum are X exactly,
\* the computed mean is X exactly for N <= 2, and the computed standard
\* deviation is 0 exactly when the computed mean is X
C19_RoundTrip ==
    \A units \in AccuracyTexts :
       (Summarized /\ C19_AllEqual(units)) =>
          /\ summary.count = Len(accuracies)
          /\ summary.printed.average = units
          /\ summary.printed.median = units
          /\ summary.printed.std_dev = 0
          /\ summary.printed.minimum = units
          /\ summary.printed.maximum = units
          /\ summary.median_accuracy = float_of(units)
          /\ summary.min_accuracy = float_of(units)
          /\ summary.max_accuracy = float_of(units)
          /\ summary.count <= 2 => summary.average_accuracy = float_of(units)
          /\ summary.std_dev_is_zero <=> summary.average_accuracy = float_of(units)

\* three accuracies of 0.1000 summarized: the printed mean is 0.1000 and the
\* printed deviation 0.0000 although the computed mean is not the double 0.1
C19_Witness ==
    /\ Summarized
    /\ Len(accuracies) = 3
    /\ C19_AllEqual(1000)
    /\ summary.printed.average = 1000
    /\ summary.printed.std_dev = 0
    /\ summary.average_accuracy # float_of(1000)
    /\ ~summary.std_dev_is_zero

\* the file has an id line and an accuracy line that float() accepts
C20_Aggregated(file) == file.accuracy \in AccuracyTexts /\ file.report_id # NoIdLine

\* the files read so far that are aggregated, in sorted-filename order
C20_Entries == SelectSeq(SubSeq(accuracy_files, 1, files_read), C20_Aggregated)

\* the id generate_report keeps for an aggregated file
C20_IdOf(file) == IF file.report_id # "" THEN file.report_id ELSE filename_stem(file.filename)

\* C20: the id list and the accuracy list have the same length and entry i
\* of both comes from the i-th aggregated file in sorted-filename order,
\* however many files were skipped; the id printed with the minimum
\* (maximum) is the id of the first of these entries whose accuracy is the
\* minimum (maximum)
C20_MinMaxProvenance ==
    /\ gpc # "idle" =>
          /\ Len(accuracies) = Len(summary_report_ids)
          /\ Len(accuracies) = Len(C20_Entries)
          /\ \A i \in 1..Len(C20_Entries) :
                /\ accuracies[i] = float_of(C20_Entries[i].accuracy)
                /\ summary_report_ids[i] = C20_IdOf(C20_Entries[i])
    /\ Summarized =>
          /\ \A i \in 1..Len(accuracies) :
                /\ ~less(accuracies[i], summary.min_accuracy)
                /\ ~less(summary.max_accuracy, accuracies[i])
          /\ \E i \in 1..Len(accuracies) :
                /\ accuracies[i] = summary.min_accuracy
                /\ \A j \in 1..(i - 1) : accuracies[j] # summary.min_accuracy
                /\ summary.min_report_id = C20_IdOf(C20_Entries[i])
          /\ \E i \in 1..Len(accuracies) :
                /\ accuracies[i] = summary.max_accuracy
                /\ \A j \in 1..(i - 1) : accuracies[j] # summary.max_accuracy
                /\ summary.max_report_id = C20_IdOf(C20_Entries[i])

\* the first file was skipped, the other two tie at the minimum with
\* different ids, and the id printed with the minimum is the second file's
C20_Witness ==
    /\ Summarized
    /\ Len(accuracy_files) = 3
    /\ ~C20_Aggregated(accuracy_files[1])
    /\ Len(accuracies) = 2
    /\ accuracies[1] = accuracies[2]
    /\ summary_report_ids[1] # summary_report_ids[2]
    /\ summary.min_report_id = C20_IdOf(accuracy_files[2])
    /\ summary.min_report_id = summary_report_ids[1]

\* the file has a line "Overall accuracy:" with a number
C21_ValidAccuracy(file) == file.accuracy \in AccuracyTexts

\* the files read so far with a valid accuracy, in sorted-filename order
C21_ValidFiles == SelectSeq(SubSeq(accuracy_files, 1, files_read), C21_ValidAccuracy)

\* C21: generate_report exits non-zero and writes no summary exactly when
\* no file yields a valid accuracy (or there is no file); every file read
\* whose accuracy line is missing or unparsable is skipped with a printed
\* warning, and the processed count is the number of files with a valid
\* accuracy
C21_AggregatorFailure ==
    /\ gpc = "done" =>
          /\ report_exit # 0 <=> Len(C21_ValidFiles) = 0
          /\ report_exit # 0 => summary_file = "absent" /\ summary = NoStatistics
    /\ gpc # "idle" =>
          \A i \in 1..files_read :
             ~C21_ValidAccuracy(accuracy_files[i]) => accuracy_files[i].filename \in warned
    /\ Summarized => summary.count = Len(C21_ValidFiles)

\* C26: every file with a parsable accuracy line is aggregated, and one
\* without a "Report ID:" line is aggregated under the id derived from its
\* filename
C26_ReportIdFallback ==
    gpc # "idle" =>
       /\ Len(accuracies) = Len(C21_ValidFiles)
       /\ Len(summary_report_ids) = Len(C21_ValidFiles)
       /\ \A i \in 1..Len(C21_ValidFiles) :
             /\ accuracies[i] = float_of(C21_ValidFiles[i].accuracy)
             /\ C21_ValidFiles[i].report_id = NoIdLine =>
                   summary_report_ids[i] = filename_stem(C21_ValidFiles[i].filename)

-----------------------------------------------------------------------------
(* The scorer run twice: evaluation.py is run on a report, and run again    *)
(* in a new process on the same files.                                      *)

\* the rows of the tables the scorer is run twice on, and the id column
\* both of them have
RerunRows == 1

RerunIdColumns == { "Report ID" }

InitRerun ==
    /\ ScorerInputs(Tables(RerunIdColumns, TrueColumnSets, TableIds, TrueCells, RerunRows),
                    Tables(RerunIdColumns, ExtractedColumnSets, TableIds,
                           ExtractedCells, RerunRows))
    /\ accuracy_file = NoFile
    /\ hash_seed = 0

InitT == InitRerun /\ ReconcilerIdle /\ OracleIdle /\ PreprocessIdle /\ WorkflowIdle /\ ReportingIdle

NextT ==
    \/ ScoreReport /\ UNCHANGED << reconcilerVars, oracleVars, preprocessVars, workflowVars, reportingVars >>
    \/ RunAgain /\ UNCHANGED << reconcilerVars, oracleVars, preprocessVars, workflowVars, reportingVars >>

SpecRerun == InitT /\ [][NextT]_vars

\* evaluation.py ran a second time
RanAgain == spc = "done" /\ previous_run # NoRun

\* C22: the second run of the scorer on the same two tables and report id
\* gives the result of the first: the same compared columns in the same
\* order, the same counts and accuracy, the same differences in the same
\* order, and, when its save is not refused, the same header in the file
C22_Determinism ==
    RanAgain =>
       /\ score = previous_run.score
       /\ score.common_cols = previous_run.score.common_cols
       /\ score.diff_list = previous_run.score.diff_list
       /\ (score.status = "ok" /\ ~save_error) =>
             /\ accuracy_file.header = header_of(report_id, previous_run.score)
             /\ accuracy_file.differences = previous_run.score.diff_list

\* the two runs iterated the set of common columns in opposite orders, three
\* columns were compared and two cells differ
C22_Witness ==
    /\ RanAgain
    /\ hash_seed # previous_run.hash_seed
    /\ score.status = "ok"
    /\ Len(score.common_cols) = 3
    /\ Len(score.diff_list) = 2
    /\ score.diff_list[1].Column # score.diff_list[2].Column
    /\ ~save_error

-----------------------------------------------------------------------------
(* The scorer run on a report whose accuracy file an earlier run may have   *)
(* left.                                                                    *)

\* the accuracy file an earlier run left for the report
EarlierFile(id) ==
    [ exists |-> TRUE,
      header |-> [ report |-> report_id_formatted(id),
                   columns |-> << "Fibroids identified" >>,
                   total_cells |-> 1, correct_cells |-> 1, incorrect_cells |-> 0,
                   accuracy |-> 10000 ],
      differences |-> << >> ]

InitRescore ==
    /\ ScorerInputs(Tables(TrueIdColumns, TrueColumnSets, TableIds, TrueCells, RerunRows),
                    Tables(ExtractedIdColumns, ExtractedColumnSets, TableIds,
                           ExtractedCells, RerunRows))
    /\ accuracy_file \in { NoFile, EarlierFile(report_id) }
    /\ hash_seed = 0

InitE == InitRescore /\ ReconcilerIdle /\ OracleIdle /\ PreprocessIdle /\ WorkflowIdle /\ ReportingIdle

NextE == ScoreReport /\ UNCHANGED << reconcilerVars, oracleVars, preprocessVars, workflowVars, reportingVars >>

SpecRescore == InitE /\ [][NextE]_vars

\* C30: a run of the scorer that raises before its counts leaves the
\* accuracy file as it was, an earlier one neither overwritten nor removed,
\* and no run writes the ground-truth or the extracted table
C30_NoArtifactChange ==
    [][ (spc = "ready" /\ spc' = "done") =>
           /\ score'.status # "ok" => accuracy_file' = accuracy_file
           /\ df_true_orig' = df_true_orig
           /\ df_extracted_orig' = df_extracted_orig
           /\ files' = files ]_vars

\* the two tables have no column in common, main raised, and the accuracy
\* file of the earlier run is still there
C30_Witness ==
    /\ spc = "done"
    /\ score.status = "ValueError"
    /\ score.what = "no common columns"
    /\ accuracy_file = EarlierFile(report_id)

-----------------------------------------------------------------------------
(* process_report, step by step                                            *)

\* process_report was called, and the calls of run_script it made
Processed == attempted # << >>

C24_ArgumentsAccepted ==
    Processed =>
       \A i \in 1..Len(last_process.launched) :
          Len(last_process.launched[i].argv)
             = accepted_argv_length(last_process.launched[i].script)

\* C25: for every report the workflow processes, validation reads the file
\* the extraction writes, the conversion reads the file validation writes,
\* and the scorer reads the file the conversion writes
C25_HandOff ==
    \A i \in 1..Len(attempted) :
       /\ validation_files(attempted[i]).input = extraction_output_file(attempted[i])
       /\ conversion_files(attempted[i]).input = validation_files(attempted[i]).output
       /\ evaluation_input_file(attempted[i]) = conversion_files(attempted[i]).output

\* one of the two values is true-like or false-like and the other is neither
C27_OneBooleanLike ==
    \/ (C7_TrueLike(val1) \/ C7_FalseLike(val1)) /\ ~(C7_TrueLike(val2) \/ C7_FalseLike(val2))
    \/ (C7_TrueLike(val2) \/ C7_FalseLike(val2)) /\ ~(C7_TrueLike(val1) \/ C7_FalseLike(val1))

\* C27: when one of two present values is boolean-like and the other is not,
\* the boolean rule of cells_equal decides, and the two are not equal
C27_BooleanCoverage ==
    (opc = "done" /\ BothPresent /\ C27_OneBooleanLike) =>
       (eq_result.value = FALSE /\ eq_result.rule = "boolean")

-----------------------------------------------------------------------------
(* The reconciler run twice: check_and_fix, and check_and_fix again on the  *)
(* record it repaired.                                                      *)

InitV == InitR

NextV ==
    \/ CheckAndFix /\ UNCHANGED << oracleVars, scorerVars, preprocessVars, workflowVars, reportingVars >>
    \/ CheckAndFixAgain /\ UNCHANGED << oracleVars, scorerVars, preprocessVars, workflowVars, reportingVars >>

SpecRecheck == InitV /\ [][NextV]_vars

\* the misspelled keys of the record that were renamed to the template key k
C28_RenamedTo(k) == { w \in DOMAIN fix_report.renamed : fix_report.renamed[w] = k }

C29_Idempotence ==
    vpc = "rechecked" =>
       /\ recheck.data = corrected_data
       /\ DOMAIN recheck.data = DOMAIN corrected_data
       /\ recheck.report.missing = {}
       /\ DOMAIN recheck.report.renamed = {}
       /\ recheck.report.deleted = {}

\* the first run added a key, renamed a key and deleted a key, and the
\* second run was made
C29_Witness ==
    /\ vpc = "rechecked"
    /\ fix_report.missing # {}
    /\ DOMAIN fix_report.renamed # {}
    /\ fix_report.deleted # {}
    /\ recheck.data = corrected_data

====
